---- MODULE Spec2Model ----
(***************************************************************************)
(* Model of the Impeller display-list Canvas compositor                    *)
(* (impeller/display_list/canvas.cc): the save/restore frame stack, the    *)
(* shared depth counter, the lazily started render-pass stack, the         *)
(* save-layer (subpass) allocator with its backdrop flip, and the entity   *)
(* dispatcher.                                                             *)
(*                                                                         *)
(* Abstractions.  A transform is the integer translation it applies        *)
(* (0 is the identity, composition is addition).  A coverage rectangle is  *)
(* the set of pixels it contains ({} is "no coverage").  An alpha is an    *)
(* integer number of 1/AlphaOne units and multiplication rounds down.      *)
(* FML_DCHECK does not stop a release build: a failed check only clears    *)
(* the history flag dcheck_ok and execution goes on.                       *)
(*                                                                         *)
(* The module also models the operation queue of the GL backend            *)
(* (impeller/renderer/backend/gles/reactor_gles.cc): threads enqueue       *)
(* operations and react; one step of a thread is one lock region.  A       *)
(* handle is the number HandleGLES::Create gave it; an operation is a      *)
(* number too, and those in the set enqueuing are closures that enqueue a  *)
(* further operation when they run.  Locking a mutex the thread already    *)
(* holds blocks the thread for good.                                       *)
(*                                                                         *)
(* The module also models the cull-rect tracker of the display list        *)
(* (display_list/utils/dl_matrix_clip_tracker.cc).  There a coordinate is  *)
(* an integer number of half pixels, a rectangle is its four edges, a      *)
(* matrix is the 3x3 integer matrix acting on (x, y, 1), and a point       *)
(* mapped through an inverse matrix is the exact fraction (x/w, y/w).      *)
(* Every rectangle of the model is finite.                                 *)
(***************************************************************************)
EXTENDS Integers, Sequences, FiniteSets, TLC

\* ------------------------------------------------------------------ bounds
MaxDepth == 2
MaxReserve == 1
MaxSaveCount == 3
MaxTranslation == 1
MaxClips == 2
MaxOps == 2              \* operations enqueued in one run
MaxCoord == 2            \* largest coordinate of a clip shape, in half pixels
MaxHandles == 1          \* handles created in one run
kMaxBindings == 3        \* entries of a binding workspace, scaled down
MaxChannel == 3          \* largest value of a colour channel

\* --------------------------------------------------------------- constants
kMaxDepth == 16777216
\* std::numeric_limits<uint32_t>::max(), as the largest integer of the checker
kBackdropClipDepth == 2147483647
AlphaOne == 2 * 2 * 2 * 2 * 2 * 2
Pixels == {1, 2}

VARIABLES
  transform_stack_,        \* std::deque<CanvasStackEntry>
  current_depth_,          \* uint64_t
  render_passes_,          \* std::vector<LazyRenderingConfig>
  save_layer_state_,       \* std::vector<SaveLayerState>
  clip_coverage_stack_,    \* EntityPassClipStack
  rendered,                \* the entities the last call handed to render passes
  last_draw_depth,         \* history: depth of the last draw entity rendered
  expired_clip_depth,      \* history: largest depth of a clip whose scope ended
  dcheck_ok,               \* history: no FML_DCHECK has failed so far
  supports_framebuffer_fetch, \* device capability, fixed at construction
  requires_readback_,      \* bool, fixed at construction
  ops_,                    \* ReactorGLES: std::vector<Operation>
  is_valid_,               \* ReactorGLES: bool, fixed at construction
  ops_execution_mutex_,    \* ReactorGLES: the thread holding it, or "none"
  can_react,               \* the threads CanReactOnCurrentThread() accepts
  threads,                 \* per thread: position, call, local flush list
  executed,                \* history: the operations executed, in order
  handles_,                \* ReactorGLES: handle -> LiveHandle
  enqueuing,               \* the operations whose closure calls AddOperation
  created_handles,         \* history: the handles CreateHandle returned
  collected_handles,       \* history: handle -> had a GL name when collected
  gl_objects,              \* history: handle -> GL objects created, deleted
  op_handles,              \* history: operation -> handles live at enqueue
  unresolved,              \* history: failed GetGLHandle calls of operations
  cull_rect_,              \* DisplayListMatrixClipState: DlRect
  matrix_,                 \* DisplayListMatrixClipState: DlMatrix
  tracker_call,            \* the tracker call in progress or just returned
  pipeline_,               \* RenderPassVK: a pipeline is set for the command
  bound_image_offset_,     \* RenderPassVK: entries of image_workspace_ in use
  bound_buffer_offset_,    \* RenderPassVK: entries of buffer_workspace_ in use
  descriptor_write_offset_, \* RenderPassVK: entries of write_workspace_ in use
  bind_result,             \* history: what the last BindResource returned
  workspace_overrun,       \* a write went past the end of a workspace
  filtered,                \* history: the last colour filtered, on both paths
  caller_scopes,           \* history: the caller's view of its open scopes
  honoured,                \* history: the caller kept the depth budget
  last_save_layer,         \* history: arguments, if the last call was SaveLayer
  last_draw,               \* history: arguments, if the last call drew a shape
  open_layers,             \* history: the scopes a recording caller has open
  undefined                \* the canvas has executed undefined behaviour

vars == <<transform_stack_, current_depth_, render_passes_, save_layer_state_,
          clip_coverage_stack_, rendered, last_draw_depth, expired_clip_depth,
          dcheck_ok, supports_framebuffer_fetch, requires_readback_,
          ops_, is_valid_, ops_execution_mutex_, can_react, threads, executed,
          handles_, enqueuing, created_handles, collected_handles,
          gl_objects, op_handles, unresolved,
          cull_rect_, matrix_, tracker_call,
          pipeline_, bound_image_offset_, bound_buffer_offset_,
          descriptor_write_offset_, bind_result, workspace_overrun, filtered,
          caller_scopes, honoured, last_save_layer, last_draw,
          open_layers, undefined>>

reactor_vars == <<ops_, is_valid_, ops_execution_mutex_, can_react, threads,
                  executed>>

handle_vars == <<handles_, enqueuing, created_handles, collected_handles,
                 gl_objects, op_handles, unresolved>>

tracker_vars == <<cull_rect_, matrix_, tracker_call>>

pass_vars == <<pipeline_, bound_image_offset_, bound_buffer_offset_,
               descriptor_write_offset_, bind_result, workspace_overrun>>

filter_vars == <<filtered>>

canvas_vars == <<transform_stack_, current_depth_, render_passes_,
                 save_layer_state_, clip_coverage_stack_, rendered,
                 last_draw_depth, expired_clip_depth, dcheck_ok,
                 supports_framebuffer_fetch, requires_readback_,
                 caller_scopes, honoured, last_save_layer, last_draw,
                 open_layers, undefined>>

\* ------------------------------------------------------- sequence helpers
Back(q) == q[Len(q)]
PopBack(q) == SubSeq(q, 1, Len(q) - 1)
SetBack(q, v) == [q EXCEPT ![Len(q)] = v]

\* ------------------------------------------------------------ value types
BlendModes == {"kSource", "kSourceOver", "kScreen"}
PipelineBlendModes == {"kSource", "kSourceOver"}
PaintBlendModes == {"kSourceOver", "kScreen"}
Alphas == {AlphaOne, AlphaOne \div 2}
FlipOutcomes == {"ok", "end_pass_failed", "no_texture", "backdrop_render_failed"}

\* Scalar multiplication of two alphas.
MulAlpha(a, b) == (a * b) \div AlphaOne

\* Entity::kLastPipelineBlendMode: modes after it need emulation.
IsAdvancedBlend(mode) == mode \notin PipelineBlendModes

\* Entity::IsBlendModeDestructive
IsBlendModeDestructive(mode) == mode = "kSource"

\* Paint::CanApplyOpacityPeephole: the paint varies only alpha.
CanApplyOpacityPeephole(paint) ==
  /\ paint.blend_mode = "kSourceOver"
  /\ ~paint.image_filter
  /\ ~paint.color_filter

\* A default-constructed CanvasStackEntry.
CanvasStackEntry ==
  [transform |-> 0, clip_depth |-> 0, clip_height |-> 0, num_clips |-> 0,
   distributed_opacity |-> AlphaOne, rendering_mode |-> "kDirect",
   skipping |-> FALSE, did_round_out |-> FALSE]

SubpassModes == {"kSubpassAppendSnapshotTransform",
                 "kSubpassPrependSnapshotTransform"}

\* The canvas as one record, so that handlers can call one another.
State ==
  [ts |-> transform_stack_, depth |-> current_depth_, passes |-> render_passes_,
   sls |-> save_layer_state_, ccs |-> clip_coverage_stack_, log |-> <<>>,
   expired |-> expired_clip_depth, dok |-> dcheck_ok, ub |-> undefined,
   ret |-> TRUE]

\* ------------------------------------------------------- small accessors
GetSaveCount(s) == Len(s.ts)
IsSkipping(s) == Back(s.ts).skipping
GetClipHeight(s) == Back(s.ts).clip_height
GetCurrentTransform(s) == Back(s.ts).transform

GetClipHeightFloor(s) ==
  IF Len(s.ts) > 1 THEN s.ts[Len(s.ts) - 1].clip_height ELSE 0

\* FML_DCHECK(cond): a failed check is remembered, nothing else happens.
DCheck(s, cond) == [s EXCEPT !.dok = @ /\ cond]

Max(a, b) == IF a >= b THEN a ELSE b
Min(a, b) == IF a <= b THEN a ELSE b

\* History: the smallest clip_depth among the open frames that hold a clip.
RECURSIVE ClipCeiling(_)
ClipCeiling(ts) ==
  IF Len(ts) = 0 THEN kMaxDepth
  ELSE IF Back(ts).num_clips > 0 /\ ~Back(ts).skipping
  THEN Min(Back(ts).clip_depth, ClipCeiling(PopBack(ts)))
  ELSE ClipCeiling(PopBack(ts))

\* An entity submitted to the pass on top of the render-pass stack.  The
\* fields frame, ceiling and floor are history: the frame on top of the
\* stack, the ceiling of the open clips and the largest expired clip depth
\* at the time of the submission.
SubmitIn(s, scope, kind, depth, blend, opacity) ==
  [s EXCEPT !.log = Append(@, [kind |-> kind, depth |-> depth,
                               pass |-> Back(s.passes).owner,
                               blend |-> blend, opacity |-> opacity,
                               frame |-> Len(scope),
                               top_clip_depth |-> Back(scope).clip_depth,
                               ceiling |-> ClipCeiling(scope),
                               floor |-> s.expired]),
            !.passes = SetBack(@, [Back(@) EXCEPT !.active = TRUE])]

Submit(s, kind, depth, blend, opacity) ==
  SubmitIn(s, s.ts, kind, depth, blend, opacity)

\* InlinePassContext::GetRenderPass(0): the physical pass is started.
GetRenderPass(s) ==
  [s EXCEPT !.passes = SetBack(@, [Back(@) EXCEPT !.active = TRUE])]

\* LazyRenderingConfig::IsApplyingClearColor: the pass has not been started
\* yet, so its clear colour can still be updated.
IsApplyingClearColor(s) == ~Back(s.passes).active

\* ---------------------------------------------------- EntityPassClipStack
HasCoverage(s) == Len(Back(s.ccs).clip_coverage) > 0
CurrentClipCoverage(s) == Back(Back(s.ccs).clip_coverage).coverage

PushSubpass(s, subpass_coverage, clip_height) ==
  [s EXCEPT !.ccs = Append(@,
     [clip_coverage |-> <<[coverage |-> subpass_coverage,
                           clip_height |-> clip_height]>>,
      rendered_clip_entities |-> <<>>])]

PopSubpass(s) == [s EXCEPT !.ccs = PopBack(@)]

\* ApplyFramebufferBlend: the contents are wrapped into a framebuffer blend
\* of the entity's blend mode; returns the blend mode left on the entity.
ApplyFramebufferBlend_KeepMode(blend_mode) == blend_mode

ApplyFramebufferBlend(blend_mode) == "kSource"

\* ---------------------------------------------------------- FlipBackdrop
\* Returns the state and whether an input texture was obtained.
\* The clips recorded before the flip are rendered again, each under the
\* scissor of its own recorded coverage.
ReplayClips_CurrentScissor(st, replays) ==
  [st EXCEPT !.log = @ \o
     [i \in 1..Len(replays) |->
        [kind |-> "clip_replay", depth |-> replays[i].depth,
         pass |-> Back(st.passes).owner, blend |-> "kSource",
         opacity |-> AlphaOne, frame |-> Len(st.ts),
         top_clip_depth |-> Back(st.ts).clip_depth,
         ceiling |-> ClipCeiling(st.ts), floor |-> st.expired,
         scissor |-> CurrentClipCoverage(st)]]]

ReplayClips(st, replays) ==
  [st EXCEPT !.log = @ \o
     [i \in 1..Len(replays) |->
        [kind |-> "clip_replay", depth |-> replays[i].depth,
         pass |-> Back(st.passes).owner, blend |-> "kSource",
         opacity |-> AlphaOne, frame |-> Len(st.ts),
         top_clip_depth |-> Back(st.ts).clip_depth,
         ceiling |-> ClipCeiling(st.ts), floor |-> st.expired,
         scissor |-> replays[i].coverage]]]

FlipBackdrop(s, outcome) ==
  LET started == GetRenderPass(s)
      \* EndPass: the texture has been through a pass with its clear colour
      ended == started
      replays == Back(s.ccs).rendered_clip_entities
      replayed(st) == ReplayClips(st, replays)
  IN  CASE outcome = "end_pass_failed" ->
             [s |-> started, texture |-> FALSE]
        [] outcome = "no_texture" ->
             [s |-> ended, texture |-> FALSE]
        [] outcome = "backdrop_render_failed" ->
             [s |-> GetRenderPass(ended), texture |-> FALSE]
        [] OTHER ->
             [s |-> replayed(Submit(ended, "msaa_backdrop", kBackdropClipDepth,
                                    "kSource", AlphaOne)),
              texture |-> TRUE]

\* ------------------------------------------------------------------ Save
SkipUntilMatchingRestore(s, total_content_depth) ==
  LET entry == [CanvasStackEntry EXCEPT
                  !.skipping = TRUE,
                  !.clip_depth = s.depth + total_content_depth]
  IN  [s EXCEPT !.ts = Append(@, entry)]

Save_IgnoringSkip(s, total_content_depth) ==
  LET entry == [CanvasStackEntry EXCEPT
                  !.transform = Back(s.ts).transform,
                  !.clip_depth = s.depth + total_content_depth,
                  !.distributed_opacity = Back(s.ts).distributed_opacity,
                  !.clip_height = Back(s.ts).clip_height,
                  !.rendering_mode = "kDirect"]
      checked == DCheck(s, entry.clip_depth <= Back(s.ts).clip_depth)
  IN  [checked EXCEPT !.ts = Append(@, entry)]

Save(s, total_content_depth) ==
  IF IsSkipping(s) THEN SkipUntilMatchingRestore(s, total_content_depth)
  ELSE
    LET entry == [CanvasStackEntry EXCEPT
                    !.transform = Back(s.ts).transform,
                    !.clip_depth = s.depth + total_content_depth,
                    !.distributed_opacity = Back(s.ts).distributed_opacity,
                    !.clip_height = Back(s.ts).clip_height,
                    !.rendering_mode = "kDirect"]
        checked == DCheck(s, entry.clip_depth <= Back(s.ts).clip_depth)
    IN  [checked EXCEPT !.ts = Append(@, entry)]

\* ------------------------------------------------- coverage computations
GetLocalCoverageLimit_IgnoringClip(s) ==
  Back(s.passes).bounds \cap Pixels

GetLocalCoverageLimit(s) ==
  IF ~HasCoverage(s) THEN {}
  ELSE IF CurrentClipCoverage(s) = {} THEN {}
  ELSE (Back(s.passes).bounds \cap CurrentClipCoverage(s)) \cap Pixels

\* save_layer_utils: ComputeSaveLayerCoverage.  bounds = Pixels stands for
\* Rect::MakeMaximum().
ComputeSaveLayerCoverage(bounds, coverage_limit, flood_output_coverage, flood_input_coverage) ==
  IF flood_output_coverage \/ flood_input_coverage
  THEN coverage_limit
  ELSE bounds \cap coverage_limit

\* ------------------------------------------------------------- SaveLayer
\* The test that sends SaveLayer down the opacity peephole.
TakesOpacityPeephole_AnyPromise(paint, backdrop_filter, bounds_promise, can_distribute_opacity) ==
  /\ can_distribute_opacity
  /\ ~backdrop_filter
  /\ CanApplyOpacityPeephole(paint)

TakesOpacityPeephole(paint, backdrop_filter, bounds_promise, can_distribute_opacity) ==
  /\ can_distribute_opacity
  /\ ~backdrop_filter
  /\ CanApplyOpacityPeephole(paint)
  /\ bounds_promise # "kMayClipContents"

\* "When applying a save layer, absorb any pending distributed opacity":
\* the paint copy and the stack with the opacity of its top frame consumed.
AbsorbDistributedOpacity_KeepPending(ts, paint) ==
  [paint_copy |-> [paint EXCEPT
                     !.alpha = MulAlpha(@, Back(ts).distributed_opacity)],
   ts |-> ts]

AbsorbDistributedOpacity(ts, paint) ==
  [paint_copy |-> [paint EXCEPT
                     !.alpha = MulAlpha(@, Back(ts).distributed_opacity)],
   ts |-> SetBack(ts, [Back(ts) EXCEPT !.distributed_opacity = AlphaOne])]

\* Matrix::HasTranslation; a transform of the canvas is its translation.
HasTranslation(transform) == transform # 0

\* The rendering mode the backdrop filter contents are given.
BackdropRenderingMode_AlwaysAppend(transform) ==
  "kSubpassAppendSnapshotTransform"

BackdropRenderingMode(transform) ==
  IF HasTranslation(transform) THEN "kSubpassPrependSnapshotTransform"
  ELSE "kSubpassAppendSnapshotTransform"

\* The backdrop entity carries the rendering mode of its filter contents.
WithRenderingMode(entity, mode) == entity @@ [rendering_mode |-> mode]

\* env.flip: outcome of the backdrop flip; env.size_empty: the truncated
\* pixel size of an image-filtered layer came out empty.
SaveLayer(s, paint, bounds, backdrop_filter, bounds_promise, total_content_depth, can_distribute_opacity, env) ==
  IF IsSkipping(s) THEN SkipUntilMatchingRestore(s, total_content_depth)
  ELSE IF GetLocalCoverageLimit(s) = {}
  THEN SkipUntilMatchingRestore(s, total_content_depth)
  ELSE IF TakesOpacityPeephole(paint, backdrop_filter, bounds_promise,
                               can_distribute_opacity)
  THEN LET saved == Save(s, total_content_depth)
       IN  [saved EXCEPT !.ts = SetBack(@, [Back(@) EXCEPT
              !.distributed_opacity = MulAlpha(@, paint.alpha)])]
  ELSE
    LET coverage_limit == GetLocalCoverageLimit(s)
        subpass_coverage ==
          ComputeSaveLayerCoverage(bounds, coverage_limit,
                                   IsBlendModeDestructive(paint.blend_mode),
                                   backdrop_filter)
        did_round_out == ~paint.image_filter
        flip == FlipBackdrop(s, env.flip)
        s1 == IF backdrop_filter THEN flip.s ELSE s
        absorbed == AbsorbDistributedOpacity(s1.ts, paint)
        paint_copy == absorbed.paint_copy
        s2 == [s1 EXCEPT
                 !.ts = absorbed.ts,
                 !.passes = Append(@, [owner |-> Len(s1.ts) + 1,
                                       active |-> FALSE,
                                       bounds |-> subpass_coverage]),
                 !.sls = Append(@, [paint |-> paint_copy,
                                    coverage |-> subpass_coverage])]
        entry == [CanvasStackEntry EXCEPT
                    !.transform = Back(s2.ts).transform,
                    !.clip_depth = s2.depth + total_content_depth,
                    !.clip_height = Back(s2.ts).clip_height,
                    !.rendering_mode = "kSubpassAppendSnapshotTransform",
                    !.did_round_out = did_round_out]
        s3 == DCheck(s2, entry.clip_depth <= Back(s2.ts).clip_depth)
        s4 == [s3 EXCEPT !.ts = Append(@, entry)]
        s5 == PushSubpass(s4, subpass_coverage, Back(s4.ts).clip_height)
    IN  IF subpass_coverage = {}
        THEN SkipUntilMatchingRestore(s, total_content_depth)
        ELSE IF paint.image_filter /\ env.size_empty
        THEN SkipUntilMatchingRestore(s, total_content_depth)
        ELSE IF backdrop_filter /\ ~flip.texture
        THEN flip.s
        ELSE IF backdrop_filter
        THEN LET st == Submit(s5, "backdrop", kBackdropClipDepth,
                              "kSourceOver", AlphaOne)
                 mode == BackdropRenderingMode(Back(s.ts).transform)
             IN  [st EXCEPT !.log = SetBack(@, WithRenderingMode(Back(@),
                                                                 mode))]
        ELSE s5

\* ------------------------------------------------------- EntityPassClipStack
\* ApplyClipState for an appended clip with the given coverage.
ApplyClipAppend(s, coverage, clip_height_floor, depth) ==
  LET sub == Back(s.ccs)
      prior == CurrentClipCoverage(s)
      previous_clip_height ==
        IF Len(sub.clip_coverage) > 0
        THEN Back(sub.clip_coverage).clip_height
        ELSE clip_height_floor
      pushed == [sub EXCEPT !.clip_coverage =
                   Append(@, [coverage |-> coverage,
                              clip_height |-> previous_clip_height + 1])]
      recorded == [pushed EXCEPT !.rendered_clip_entities =
                     Append(@, [depth |-> depth, coverage |-> coverage,
                                clip_height |-> previous_clip_height + 1])]
  IN  IF prior = {}
      THEN [s |-> [s EXCEPT !.ccs = SetBack(@, pushed)],
            should_render |-> FALSE, clip_did_change |-> TRUE]
      ELSE [s |-> [s EXCEPT !.ccs = SetBack(@, recorded)],
            should_render |-> TRUE, clip_did_change |-> TRUE]

\* ApplyClipState for a clip restore down to restore_height.
ApplyClipRestore(s, restore_height) ==
  LET sub == Back(s.ccs)
      restoration_index == restore_height - sub.clip_coverage[1].clip_height
      resized == [sub EXCEPT !.clip_coverage =
                    SubSeq(@, 1, restoration_index + 1)]
      StillApplied(replay) == replay.clip_height <= restore_height
      recorded == [resized EXCEPT !.rendered_clip_entities =
                     SelectSeq(@, StillApplied)]
  IN  IF Back(sub.clip_coverage).clip_height <= restore_height
      THEN [s |-> s, should_render |-> FALSE, clip_did_change |-> FALSE]
      ELSE IF Back(resized.clip_coverage).coverage = {}
      THEN [s |-> [s EXCEPT !.ccs = SetBack(@, resized)],
            should_render |-> FALSE, clip_did_change |-> TRUE]
      ELSE [s |-> [s EXCEPT !.ccs = SetBack(@, recorded)],
            should_render |-> TRUE, clip_did_change |-> TRUE]

\* ClipContents::GetClipCoverage for a clip of the given shape.
GetClipCoverage(current_clip_coverage, shape, clip_op) ==
  IF clip_op = "kDifference" THEN current_clip_coverage
  ELSE shape \cap current_clip_coverage

\* --------------------------------------------------------------- Restore
\* History: the clips of a popped frame have expired.
Expire(s, frame) ==
  [s EXCEPT !.expired = IF frame.num_clips > 0
                        THEN Max(@, frame.clip_depth) ELSE @]

\* Restore(), past the test for the root frame.
RestoreFrame(s, flip_outcome) ==
    LET s0 == [DCheck(s, s.depth <= Back(s.ts).clip_depth)
                 EXCEPT !.depth = Back(s.ts).clip_depth]
    IN
    IF IsSkipping(s0) THEN [s0 EXCEPT !.ts = PopBack(@), !.ret = TRUE]
    ELSE IF Back(s0.ts).rendering_mode \in SubpassModes /\ Len(s0.sls) = 0
    THEN \* render_passes_ is left empty and save_layer_state_.back() is read
         \* from an empty vector
         [s0 EXCEPT !.passes = PopBack(@), !.ub = TRUE]
    ELSE IF Back(s0.ts).rendering_mode \in SubpassModes
    THEN
      LET save_layer_state == Back(s0.sls)
          \* the subpass is started if it never was, then ended
          s1 == [s0 EXCEPT !.passes = PopBack(@), !.sls = PopBack(@),
                           !.depth = @ + 1]
          blend == save_layer_state.paint.blend_mode
          flip == FlipBackdrop(s1, flip_outcome)
          \* the contents of the composite get their filters with the
          \* transform of the frame on top of the stack, the layer's own
          effect_transform == Back(s0.ts).transform
          \* history: the composite is drawn in the enclosing scope, when
          \* the clips of the layer's frame have expired
          done(st, mode) ==
            LET e == SubmitIn(Expire(st, Back(st.ts)), PopBack(st.ts),
                              "subpass", s1.depth, mode,
                              save_layer_state.paint.alpha)
                r == [e EXCEPT !.log = SetBack(@, Back(@) @@
                        [effect_transform |-> effect_transform])]
                p == PopSubpass(r)
            IN  [p EXCEPT !.ts = PopBack(@), !.ret = TRUE]
      IN  IF ~IsAdvancedBlend(blend) THEN done(s1, blend)
          ELSE IF supports_framebuffer_fetch
          THEN done(s1, ApplyFramebufferBlend(blend))
          ELSE IF ~flip.texture THEN [flip.s EXCEPT !.ret = FALSE]
          ELSE done(flip.s, "kSource")
    ELSE
      LET num_clips == Back(s0.ts).num_clips
          s1 == Expire([s0 EXCEPT !.ts = PopBack(@), !.ret = TRUE],
                       Back(s0.ts))
          applied == ApplyClipRestore(s1, GetClipHeight(s1))
          s2 == IF applied.clip_did_change
                THEN GetRenderPass(applied.s) ELSE applied.s
          \* history: the restore height of the entity and the scissor set
          \* for the pass
          s3 == Submit(s2, "clip_restore", 0, "kSourceOver", AlphaOne)
          restored == Back(s3.log) @@
                        [restore_height |-> GetClipHeight(s1),
                         scissor |-> CurrentClipCoverage(s2)]
      IN  IF num_clips = 0 THEN s1
          ELSE IF ~applied.should_render THEN s2
          ELSE [s3 EXCEPT !.log = SetBack(@, restored)]

\* Restore(): the root frame is never popped.
Restore_PopsRoot(s, flip_outcome) ==
  IF Len(s.ts) = 1 THEN [s EXCEPT !.ts = PopBack(@), !.ret = TRUE]
  ELSE RestoreFrame(s, flip_outcome)

Restore(s, flip_outcome) ==
  IF Len(s.ts) = 1 THEN [s EXCEPT !.ret = FALSE]
  ELSE RestoreFrame(s, flip_outcome)

\* ------------------------------------------ AddRenderEntityToCurrentPass
\* entity: blend_mode, opaque (IsOpaque), background (AsBackgroundColor has
\* a value).  env.flip: outcome of the flip; env.pass_ok: GetRenderPass
\* produced a pass.
\* The entity is a solid colour covering the pass texture and the clear
\* colour of the pass can still be updated.
FoldsIntoClearColor_AnyTime(s, entity) == entity.background

FoldsIntoClearColor(s, entity) ==
  IsApplyingClearColor(s) /\ entity.background

\* The depth the entity is stamped with.
StampDepth_AlwaysAdvancing(s, reuse_depth) == [s EXCEPT !.depth = @ + 1]

StampDepth(s, reuse_depth) ==
  IF reuse_depth THEN s ELSE [s EXCEPT !.depth = @ + 1]

AddRenderEntityToCurrentPass(s, entity, reuse_depth, env) ==
  IF IsSkipping(s) THEN s
  ELSE
    LET opacity == Back(s.ts).distributed_opacity
        blend0 == IF entity.blend_mode = "kSourceOver" /\ entity.opaque
                  THEN "kSource" ELSE entity.blend_mode
        s1 == StampDepth(s, reuse_depth)
        s2 == DCheck(s1, s1.depth <= Back(s1.ts).clip_depth)
        flip == FlipBackdrop(s2, env.flip)
        emit(st, mode) ==
          IF env.pass_ok THEN Submit(st, entity.kind, s2.depth, mode, opacity)
          ELSE st
    IN  IF FoldsIntoClearColor(s, entity) THEN s
        ELSE IF ~IsAdvancedBlend(blend0) THEN emit(s2, blend0)
        ELSE IF supports_framebuffer_fetch
        THEN emit(s2, ApplyFramebufferBlend(blend0))
        ELSE IF ~flip.texture THEN flip.s
        ELSE emit(flip.s, "kSource")

\* -------------------------------------------- AddClipEntityToCurrentPass
AddClipEntityToCurrentPass(s, shape, clip_op) ==
  IF IsSkipping(s) THEN s
  ELSE
    LET s1 == DCheck(s, s.depth <= Back(s.ts).clip_depth)
        clip_depth == Back(s.ts).clip_depth
        coverage == GetClipCoverage(CurrentClipCoverage(s), shape, clip_op)
        applied == ApplyClipAppend(s1, coverage, GetClipHeightFloor(s),
                                   clip_depth)
        s2 == IF applied.clip_did_change
              THEN GetRenderPass(applied.s) ELSE applied.s
    IN  IF ~applied.should_render THEN s2
        ELSE Submit(s2, "clip", clip_depth, "kSourceOver", AlphaOne)

ClipGeometry_NotCounted(s, shape, clip_op) ==
  LET s1 == AddClipEntityToCurrentPass(s, shape, clip_op)
  IN  [s1 EXCEPT !.ts = SetBack(@, [Back(@) EXCEPT !.clip_height = @ + 1])]

ClipGeometry(s, shape, clip_op) ==
  LET s1 == AddClipEntityToCurrentPass(s, shape, clip_op)
  IN  [s1 EXCEPT !.ts = SetBack(@, [Back(@) EXCEPT
                                      !.clip_height = @ + 1,
                                      !.num_clips = @ + 1])]

\* ----------------------------------------------- AttemptDrawBlurredRRect
\* The path on which the mask blur of a solid rounded rectangle is absorbed
\* (the function returns true).  style is the blur style; env.flip and
\* env.pass_ok are those of the draws, env.size_empty that of the deferring
\* SaveLayer, env.restore_flip the flip of its Restore, env.covers tells
\* whether the sharp rectangle covers the whole pass texture.
BlurStyles == {"kNormal", "kSolid", "kOuter", "kInner"}

AttemptDrawBlurredRRect(s, paint, style, env) ==
  LET opaque == paint.alpha = AlphaOne
      deferred ==
        \/ style # "kNormal" /\ paint.image_filter
        \/ style = "kSolid" /\ (~opaque \/ paint.blend_mode # "kSourceOver")
      layer_paint == [alpha |-> paint.alpha, blend_mode |-> paint.blend_mode,
                      image_filter |-> paint.image_filter,
                      color_filter |-> FALSE]
      rrect_blend == IF deferred THEN "kSourceOver" ELSE paint.blend_mode
      rrect_opaque == deferred \/ opaque
      s1 == IF deferred
            THEN SaveLayer(s, layer_paint, Pixels, FALSE, "kContainsContents",
                           1, FALSE,
                           [flip |-> "ok", size_empty |-> env.size_empty])
            ELSE Save(s, 1)
      draw_blurred_rrect(st) ==
        AddRenderEntityToCurrentPass(
          st, [kind |-> "draw", blend_mode |-> rrect_blend, opaque |-> FALSE,
               background |-> FALSE],
          FALSE, [flip |-> env.flip, pass_ok |-> env.pass_ok])
      draw_rrect(st) ==
        AddRenderEntityToCurrentPass(
          st, [kind |-> "reuse", blend_mode |-> rrect_blend,
               opaque |-> rrect_opaque, background |-> env.covers],
          TRUE, [flip |-> env.flip, pass_ok |-> env.pass_ok])
      s2 == CASE style = "kNormal" -> draw_blurred_rrect(s1)
              [] style = "kSolid" -> draw_rrect(draw_blurred_rrect(s1))
              [] style = "kOuter" ->
                   draw_blurred_rrect(ClipGeometry(s1, {1}, "kDifference"))
              [] OTHER ->
                   draw_blurred_rrect(ClipGeometry(s1, {1}, "kIntersect"))
  IN  [Restore(s2, env.restore_flip) EXCEPT !.ret = TRUE]

\* ---------------------------------------------------------------- Concat
Concat(s, transform) ==
  [s EXCEPT !.ts = SetBack(@, [Back(@) EXCEPT
                                 !.transform = @ + transform])]

\* ------------------------------------------------------------- EndReplay
Reset_KeepingFrames(s) == [s EXCEPT !.depth = 0]

Reset(s) == [s EXCEPT !.depth = 0, !.ts = <<>>]

Initialize(s) ==
  [s EXCEPT !.ts = Append(@, [CanvasStackEntry EXCEPT
                                !.clip_depth = kMaxDepth])]

\* BlitToOnscreen: the offscreen root target is copied to the target the
\* canvas was given; history entry "blit".
BlitToOnscreen(s) == Submit(s, "blit", 0, "kSource", AlphaOne)

\* The history entry "end_pass" records InlinePassContext::EndPass.
EndReplay_BlitFirst(s) ==
  LET s0 == IF requires_readback_ THEN BlitToOnscreen(s) ELSE s
      s1 == GetRenderPass(DCheck(s0, Len(s0.passes) = 1))
      s2 == Submit(s1, "end_pass", 0, "kSource", AlphaOne)
      s4 == [s2 EXCEPT !.passes = <<>>]
  IN  Initialize(Reset(s4))

EndReplay(s) ==
  LET s1 == GetRenderPass(DCheck(s, Len(s.passes) = 1))
      s2 == Submit(s1, "end_pass", 0, "kSource", AlphaOne)
      s3 == IF requires_readback_ THEN BlitToOnscreen(s2) ELSE s2
      s4 == [s3 EXCEPT !.passes = <<>>]
  IN  Initialize(Reset(s4))

RECURSIVE RestoreToCount(_, _, _)
RestoreToCount(s, count, flips) ==
  IF GetSaveCount(s) > count
  THEN LET r == Restore(s, flips[GetSaveCount(s)])
       IN  IF ~r.ret \/ r.ub THEN r ELSE RestoreToCount(r, count, flips)
  ELSE s

\* ================================================= DisplayListMatrixClipState
\* ------------------------------------------------------------------ DlRect
DlRect(l, t, r, b) == [l |-> l, t |-> t, r |-> r, b |-> b]

\* DlRect(): the rectangle every empty cull rect is normalised to.
kEmpty == DlRect(0, 0, 0, 0)

IsEmpty(rect) == rect.l >= rect.r \/ rect.t >= rect.b

ProtectEmpty(rect) == IF IsEmpty(rect) THEN kEmpty ELSE rect

IntersectsWithRect(rect, o) ==
  /\ ~IsEmpty(rect) /\ ~IsEmpty(o)
  /\ rect.l < o.r /\ rect.r > o.l /\ rect.t < o.b /\ rect.b > o.t

\* rect.Intersection(o).value_or(DlRect())
IntersectionOrEmpty(rect, o) ==
  IF IntersectsWithRect(rect, o)
  THEN DlRect(Max(rect.l, o.l), Max(rect.t, o.t), Min(rect.r, o.r), Min(rect.b, o.b))
  ELSE kEmpty

\* rect.Contains(o), for a rectangle o
ContainsRect(rect, o) ==
  \/ IsEmpty(o)
  \/ ~IsEmpty(rect) /\ o.l >= rect.l /\ o.t >= rect.t /\ o.r <= rect.r /\ o.b <= rect.b

\* rect.CutoutOrEmpty(o): rect without o when what is left is a rectangle,
\* rect itself when it is not.
CutoutOrEmpty(rect, o) ==
  IF IsEmpty(rect) THEN kEmpty
  ELSE IF o.l <= rect.l /\ o.r >= rect.r /\ o.t <= rect.t /\ o.b >= rect.b
  THEN kEmpty
  ELSE IF o.l <= rect.l /\ o.r >= rect.r /\ o.t <= rect.t /\ o.b > rect.t
  THEN DlRect(rect.l, o.b, rect.r, rect.b)
  ELSE IF o.l <= rect.l /\ o.r >= rect.r /\ o.b >= rect.b /\ o.t < rect.b
  THEN DlRect(rect.l, rect.t, rect.r, o.t)
  ELSE IF o.t <= rect.t /\ o.b >= rect.b /\ o.l <= rect.l /\ o.r > rect.l
  THEN DlRect(o.r, rect.t, rect.r, rect.b)
  ELSE IF o.t <= rect.t /\ o.b >= rect.b /\ o.r >= rect.r /\ o.l < rect.r
  THEN DlRect(rect.l, rect.t, o.l, rect.b)
  ELSE rect

\* std::floor, std::ceil and std::round (halves away from zero) of a
\* coordinate, to whole pixels.
FloorPixel(x) == x - (x % 2)
CeilPixel(x) == x + (x % 2)
RoundPixel(x) == IF x % 2 = 0 THEN x ELSE IF x > 0 THEN x + 1 ELSE x - 1

RoundOut(rect) ==
  DlRect(FloorPixel(rect.l), FloorPixel(rect.t), CeilPixel(rect.r), CeilPixel(rect.b))

Round(rect) ==
  DlRect(RoundPixel(rect.l), RoundPixel(rect.t), RoundPixel(rect.r), RoundPixel(rect.b))

\* ---------------------------------------------------------------- DlMatrix
\* (x, y, 1) maps to (a x + b y + tx, c x + d y + ty, px x + py y + w).
DlMatrix(a, b, tx, c, d, ty, px, py, w) ==
  [a |-> a, b |-> b, tx |-> tx, c |-> c, d |-> d, ty |-> ty,
   px |-> px, py |-> py, w |-> w]

HasPerspective(m) == m.px # 0 \/ m.py # 0 \/ m.w # 1

IsAligned2D(m) ==
  /\ ~HasPerspective(m)
  /\ (m.b = 0 /\ m.c = 0) \/ (m.a = 0 /\ m.d = 0)

GetDeterminant(m) ==
  m.a * (m.d * m.w - m.ty * m.py) - m.b * (m.c * m.w - m.ty * m.px)
    + m.tx * (m.c * m.py - m.d * m.px)

is_matrix_invertable(m) == GetDeterminant(m) # 0

\* A point as the fraction (x/w, y/w) with w > 0.
Fraction(x, y, w) ==
  IF w < 0 THEN [x |-> -x, y |-> -y, w |-> -w] ELSE [x |-> x, y |-> y, w |-> w]

\* matrix.Invert() * point: the adjugate applied to (x, y, 1); the
\* determinant cancels in the division by w, and a zero w yields the origin.
InvertAndTransform(m, x, y) ==
  LET ix == (m.d * m.w - m.ty * m.py) * x - (m.b * m.w - m.tx * m.py) * y
              + (m.b * m.ty - m.tx * m.d)
      iy == (m.a * m.w - m.tx * m.px) * y - (m.c * m.w - m.ty * m.px) * x
              - (m.a * m.ty - m.tx * m.c)
      iw == (m.c * m.py - m.d * m.px) * x - (m.a * m.py - m.b * m.px) * y
              + (m.a * m.d - m.b * m.c)
  IN  IF iw = 0 THEN Fraction(0, 0, 1) ELSE Fraction(ix, iy, iw)

MinOf(S) == CHOOSE x \in S : \A y \in S : x <= y
MaxOf(S) == CHOOSE x \in S : \A y \in S : x >= y

\* rect.TransformAndClipBounds(m) for a matrix without perspective: the
\* bounds of the four mapped corners.
TransformAndClipBounds(rect, m) ==
  LET xs == {m.a * x + m.b * y + m.tx : x \in {rect.l, rect.r}, y \in {rect.t, rect.b}}
      ys == {m.c * x + m.d * y + m.ty : x \in {rect.l, rect.r}, y \in {rect.t, rect.b}}
  IN  DlRect(MinOf(xs), MinOf(ys), MaxOf(xs), MaxOf(ys))

\* rect.Contains(point): the right and bottom edges are outside.
ContainsPoint(rect, p) ==
  /\ p.x >= rect.l * p.w /\ p.x < rect.r * p.w
  /\ p.y >= rect.t * p.w /\ p.y < rect.b * p.w

\* rect.ContainsInclusive(point)
ContainsInclusive(rect, p) ==
  /\ p.x >= rect.l * p.w /\ p.x <= rect.r * p.w
  /\ p.y >= rect.t * p.w /\ p.y <= rect.b * p.w

\* ------------------------------------------------------------------ shapes
\* SkRRect: the bounds and the radii of the corners upper left, upper
\* right, lower right, lower left.
Radius(x, y) == [x |-> x, y |-> y]
RRectIsRect(rrect) == \A i \in 1..4 : rrect.radii[i].x = 0 \/ rrect.radii[i].y = 0
RRectIsOval(rrect) ==
  \A i \in 1..4 : /\ 2 * rrect.radii[i].x >= rrect.bounds.r - rrect.bounds.l
                  /\ 2 * rrect.radii[i].y >= rrect.bounds.b - rrect.bounds.t
RRectIsSimple(rrect) ==
  /\ ~RRectIsRect(rrect) /\ ~RRectIsOval(rrect)
  /\ \A i \in 1..4 : rrect.radii[i] = rrect.radii[1]

\* ------------------------------------------------- the tracker's operations
\* mapRect(src, &mapped): true when the matrix maps rectangles to rectangles.
mapRect(m, src) == [rect |-> TransformAndClipBounds(src, m), aligned |-> IsAligned2D(m)]

\* getLocalCullCorners: the corners of the cull rect in local coordinates;
\* the empty sequence stands for the result false.
getLocalCullCorners(cull, m) ==
  IF ~is_matrix_invertable(m) THEN <<>>
  ELSE <<InvertAndTransform(m, cull.l, cull.t), InvertAndTransform(m, cull.r, cull.t),
         InvertAndTransform(m, cull.r, cull.b), InvertAndTransform(m, cull.l, cull.b)>>

rect_covers_cull(cull, m, content) ==
  IF IsEmpty(content) THEN FALSE
  ELSE IF IsEmpty(cull) THEN TRUE
  ELSE IF IsAligned2D(m) THEN ContainsRect(TransformAndClipBounds(content, m), cull)
  ELSE LET corners == getLocalCullCorners(cull, m)
       IN  /\ Len(corners) > 0
           /\ \A i \in 1..4 : ContainsInclusive(content, corners[i])

\* ((corner - center) * scale).GetLengthSquared() >= 1.0, with
\* scale = 2 / size, multiplied out.
OutsideEllipse(bounds, p) ==
  LET width == bounds.r - bounds.l
      height == bounds.b - bounds.t
      dx == 2 * p.x - (bounds.l + bounds.r) * p.w
      dy == 2 * p.y - (bounds.t + bounds.b) * p.w
  IN  dx * dx * height * height + dy * dy * width * width
        >= p.w * p.w * width * width * height * height

oval_covers_cull(cull, m, bounds) ==
  IF IsEmpty(bounds) THEN FALSE
  ELSE IF IsEmpty(cull) THEN TRUE
  ELSE LET corners == getLocalCullCorners(cull, m)
       IN  /\ Len(corners) > 0
           /\ \A i \in 1..4 : /\ ContainsPoint(bounds, corners[i])
                              /\ ~OutsideEllipse(bounds, corners[i])

Abs(x) == IF x < 0 THEN -x ELSE x

\* The corner test of rrect_covers_cull (lines 335-343), multiplied out:
\* x_rel and y_rel are positive and the scaled point lies outside the unit
\* circle.
OutsideCorner(outer, radii, p) ==
  LET x_rel == Abs(2 * p.x - (outer.l + outer.r) * p.w)
                 - (outer.r - outer.l - 2 * radii.x) * p.w
      y_rel == Abs(2 * p.y - (outer.t + outer.b) * p.w)
                 - (outer.b - outer.t - 2 * radii.y) * p.w
  IN  /\ x_rel > 0 /\ y_rel > 0
      /\ x_rel * x_rel * radii.y * radii.y + y_rel * y_rel * radii.x * radii.x
           >= 4 * p.w * p.w * radii.x * radii.x * radii.y * radii.y

rrect_covers_cull(cull, m, content) ==
  IF IsEmpty(content.bounds) THEN FALSE
  ELSE IF IsEmpty(cull) THEN TRUE
  ELSE IF RRectIsRect(content) THEN rect_covers_cull(cull, m, content.bounds)
  ELSE IF RRectIsOval(content) THEN oval_covers_cull(cull, m, content.bounds)
  ELSE IF ~RRectIsSimple(content) THEN FALSE
  ELSE LET corners == getLocalCullCorners(cull, m)
       IN  /\ Len(corners) > 0
           /\ \A i \in 1..4 : /\ ContainsPoint(content.bounds, corners[i])
                              /\ ~OutsideCorner(content.bounds, content.radii[1], corners[i])

\* adjustCullRect: the cull rect after the clip.
adjustCullRect_Replacing(cull, m, clip, op, is_aa) ==
  IF IsEmpty(cull) THEN cull
  ELSE IF HasPerspective(m) THEN cull
  ELSE IF op = "kIntersect"
  THEN IF IsEmpty(clip) THEN kEmpty
       ELSE LET rect == mapRect(m, clip).rect
            IN  ProtectEmpty(IF is_aa THEN RoundOut(rect) ELSE rect)
  ELSE cull

adjustCullRect_AnyTransform(cull, m, clip, op, is_aa) ==
  IF IsEmpty(cull) THEN cull
  ELSE IF HasPerspective(m) THEN cull
  ELSE LET rect == mapRect(m, clip).rect
       IN  IF op = "kIntersect"
           THEN IF IsEmpty(clip) THEN kEmpty
                ELSE IntersectionOrEmpty(cull, IF is_aa THEN RoundOut(rect) ELSE rect)
           ELSE IF IsEmpty(clip) \/ (is_aa /\ IsEmpty(Round(rect))) THEN cull
                ELSE CutoutOrEmpty(cull, IF is_aa THEN Round(rect) ELSE rect)

adjustCullRect_UnderPerspective(cull, m, clip, op, is_aa) ==
  IF op = "kIntersect"
  THEN IF IsEmpty(clip) THEN kEmpty
       ELSE LET rect == mapRect(m, clip).rect
            IN  IntersectionOrEmpty(cull, IF is_aa THEN RoundOut(rect) ELSE rect)
  ELSE cull

adjustCullRect(cull, m, clip, op, is_aa) ==
  IF IsEmpty(cull) THEN cull
  ELSE IF HasPerspective(m) THEN cull
  ELSE IF op = "kIntersect"
  THEN IF IsEmpty(clip) THEN kEmpty
       ELSE LET rect == mapRect(m, clip).rect
            IN  IntersectionOrEmpty(cull, IF is_aa THEN RoundOut(rect) ELSE rect)
  ELSE IF IsEmpty(clip) THEN cull
  ELSE LET mapped == mapRect(m, clip)
       IN  IF ~mapped.aligned THEN cull
           ELSE IF is_aa /\ IsEmpty(Round(mapped.rect)) THEN cull
           ELSE CutoutOrEmpty(cull, IF is_aa THEN Round(mapped.rect) ELSE mapped.rect)

\* clipRect; every rectangle of the model is finite.
clipRect(cull, m, rect, op, is_aa) == adjustCullRect(cull, m, rect, op, is_aa)

clipOval_IgnoringDifference(cull, m, bounds, op, is_aa) ==
  IF op = "kIntersect" THEN adjustCullRect(cull, m, bounds, op, is_aa) ELSE cull

clipOval(cull, m, bounds, op, is_aa) ==
  IF op = "kIntersect" THEN adjustCullRect(cull, m, bounds, op, is_aa)
  ELSE IF oval_covers_cull(cull, m, bounds) THEN kEmpty
  ELSE cull

clipRRect(cull, m, rrect, op, is_aa) ==
  LET bounds == rrect.bounds
      radii == rrect.radii
  IN  IF RRectIsRect(rrect) THEN clipRect(cull, m, bounds, op, is_aa)
      ELSE IF op = "kIntersect" THEN adjustCullRect(cull, m, bounds, op, is_aa)
      ELSE IF rrect_covers_cull(cull, m, rrect) THEN kEmpty
      ELSE LET across == DlRect(bounds.l + Max(radii[1].x, radii[4].x), bounds.t,
                                bounds.r - Max(radii[2].x, radii[3].x), bounds.b)
               down == DlRect(bounds.l, bounds.t + Max(radii[1].y, radii[2].y),
                              bounds.r, bounds.b - Max(radii[4].y, radii[3].y))
           IN  adjustCullRect(adjustCullRect(cull, m, across, op, is_aa),
                              m, down, op, is_aa)

Complement(op) == IF op = "kIntersect" THEN "kDifference" ELSE "kIntersect"

clipPath_IgnoringFillType(cull, m, path, op, is_aa) ==
  IF path.is_rect THEN clipRect(cull, m, path.bounds, op, is_aa)
  ELSE IF op = "kIntersect" THEN adjustCullRect(cull, m, path.bounds, op, is_aa)
  ELSE cull

clipPath(cull, m, path, op, is_aa) ==
  LET mapped_op == IF path.inverse THEN Complement(op) ELSE op
  IN  IF path.is_rect THEN clipRect(cull, m, path.bounds, mapped_op, is_aa)
      ELSE IF mapped_op = "kIntersect"
      THEN adjustCullRect(cull, m, path.bounds, mapped_op, is_aa)
      ELSE cull

content_culled_MappingFirst(cull, m, content_bounds) ==
  IF IsEmpty(cull) \/ IsEmpty(content_bounds) THEN TRUE
  ELSE IF ~is_matrix_invertable(m) THEN TRUE
  ELSE ~IntersectsWithRect(mapRect(m, content_bounds).rect, cull)

content_culled(cull, m, content_bounds) ==
  IF IsEmpty(cull) \/ IsEmpty(content_bounds) THEN TRUE
  ELSE IF ~is_matrix_invertable(m) THEN TRUE
  ELSE IF HasPerspective(m) THEN FALSE
  ELSE ~IntersectsWithRect(mapRect(m, content_bounds).rect, cull)

\* ------------------------------------------------- draws of plain shapes
\* paint carries, besides the fields of a save-layer paint, stroke (style is
\* kStroke) and blur: "none" when AttemptDrawBlurredRRect returns false,
\* otherwise the style of the mask blur it absorbs.  env.opaque and
\* env.covers are what the contents answer to IsOpaque and
\* AsBackgroundColor.
ShapeEntity(paint, env) ==
  [kind |-> "draw", blend_mode |-> paint.blend_mode, opaque |-> env.opaque,
   background |-> env.covers]

DrawEnv(env) == [flip |-> env.flip, pass_ok |-> env.pass_ok]

DrawPath(s, paint, env) ==
  AddRenderEntityToCurrentPass(s, ShapeEntity(paint, env), FALSE,
                               DrawEnv(env))

\* The rectangle is never inspected: an empty one takes the same path.
DrawRect(s, rect, paint, env) ==
  IF paint.stroke THEN DrawPath(s, paint, env)
  ELSE IF paint.blur # "none"
  THEN AttemptDrawBlurredRRect(s, paint, paint.blur, env)
  ELSE AddRenderEntityToCurrentPass(s, ShapeEntity(paint, env), FALSE,
                                    DrawEnv(env))

\* points is the number of points; only the radius is inspected.
DrawPoints(s, points, radius, paint, env) ==
  IF radius <= 0 THEN s
  ELSE AddRenderEntityToCurrentPass(s, ShapeEntity(paint, env), FALSE,
                                    DrawEnv(env))

\* A texture is its size; the null pointer is a value of its own.
Texture(width, height) == [null |-> FALSE, width |-> width, height |-> height]
nullptr == [null |-> TRUE, width |-> 0, height |-> 0]
SizeIsEmpty(image) == image.width <= 0 \/ image.height <= 0
MakeSize(image) == DlRect(0, 0, image.width, image.height)
Shift(rect, offset) ==
  DlRect(rect.l + offset, rect.t + offset, rect.r + offset, rect.b + offset)

DrawImageRect_AnyRect(s, image, source, dest, paint, env) ==
  IF image.null THEN s
  ELSE IF SizeIsEmpty(image) THEN s
  ELSE AddRenderEntityToCurrentPass(s, ShapeEntity(paint, env), FALSE,
                                    DrawEnv(env))

DrawImageRect(s, image, source, dest, paint, env) ==
  IF image.null \/ IsEmpty(source) \/ IsEmpty(dest) THEN s
  ELSE IF SizeIsEmpty(image) THEN s
  ELSE AddRenderEntityToCurrentPass(s, ShapeEntity(paint, env), FALSE,
                                    DrawEnv(env))

DrawImage(s, image, offset, paint, env) ==
  IF image.null THEN s
  ELSE DrawImageRect(s, image, MakeSize(image),
                     Shift(MakeSize(image), offset), paint, env)

\* =================================================================== Init
RootPass == [owner |-> 1, active |-> FALSE, bounds |-> Pixels]

\* History: the caller's scope outside of every Save, with what the caller
\* saw at its start.
RootScope ==
  [budget |-> kMaxDepth, save_count |-> 1, transform |-> 0, clip_height |-> 0]

\* The canvas constructed with the given requires_readback: Initialize and
\* SetupRenderPass have run.
ConstructCanvas(requires_readback) ==
  /\ requires_readback_ = requires_readback
  /\ transform_stack_ = <<[CanvasStackEntry EXCEPT !.clip_depth = kMaxDepth]>>
  /\ current_depth_ = 0
  /\ render_passes_ = <<RootPass>>
  /\ save_layer_state_ = <<>>
  /\ clip_coverage_stack_ =
       <<[clip_coverage |-> <<[coverage |-> Pixels, clip_height |-> 0]>>,
         rendered_clip_entities |-> <<>>]>>
  /\ rendered = <<>>
  /\ last_draw_depth = 0
  /\ expired_clip_depth = 0
  /\ dcheck_ok = TRUE
  /\ supports_framebuffer_fetch \in BOOLEAN
  /\ caller_scopes = <<RootScope>>
  /\ honoured = TRUE
  /\ last_save_layer = <<>>
  /\ last_draw = <<>>
  /\ open_layers = <<>>
  /\ undefined = FALSE

\* The threads that use the reactor.
Threads == {"raster", "io"}

\* A thread outside of any reactor call.
IdleThread == [pc |-> "idle", call |-> "none", op |-> 0, result |-> FALSE, ops |-> <<>>, stack |-> <<>>]

\* RenderPassVK::RenderPassVK: no pipeline, empty workspaces; no colour has
\* been filtered.
ConstructRenderPass ==
  /\ pipeline_ = FALSE
  /\ bound_image_offset_ = 0
  /\ bound_buffer_offset_ = 0
  /\ descriptor_write_offset_ = 0
  /\ bind_result = "none"
  /\ workspace_overrun = FALSE
  /\ filtered = <<>>

\* The empty table: no handle, no GL object, no operation enqueued yet.
NoHandles == [h \in {} |-> FALSE]

\* ReactorGLES::ReactorGLES: valid iff the proc table is; qualifying are the
\* threads for which some worker answers CanReactorReactOnCurrentThreadNow.
ConstructReactor(valid, qualifying) ==
  /\ ops_ = <<>>
  /\ is_valid_ = valid
  /\ ops_execution_mutex_ = "none"
  /\ can_react = qualifying
  /\ threads = [t \in Threads |-> IdleThread]
  /\ executed = <<>>
  /\ handles_ = NoHandles
  /\ created_handles = {}
  /\ collected_handles = NoHandles
  /\ gl_objects = NoHandles
  /\ op_handles = NoHandles
  /\ unresolved = {}

\* The matrices of the model: the identity, a scale, a quarter turn, a
\* shear, a matrix that is not invertible, and one with perspective.
Identity == DlMatrix(1, 0, 0, 0, 1, 0, 0, 0, 1)
Scale2 == DlMatrix(2, 0, 0, 0, 2, 0, 0, 0, 1)
QuarterTurn == DlMatrix(0, -1, 2, 1, 0, 0, 0, 0, 1)
Shear == DlMatrix(1, 1, 0, 0, 1, 0, 0, 0, 1)
Singular == DlMatrix(1, 0, 0, 0, 0, 0, 0, 0, 1)
Perspective == DlMatrix(4, 0, -2, 1, 3, -2, -1, 0, 2)
Matrices == {Identity, Scale2, QuarterTurn, Shear, Singular, Perspective}

\* The rectangles with edges on the given coordinates, and one empty one.
RectsOver(coords) ==
  {rect \in [l : coords, t : coords, r : coords, b : coords] : ~IsEmpty(rect) \/ rect = DlRect(1, 1, 1, 1)}

\* The cull rects a tracker is constructed with.
CullRects == RectsOver(0..MaxCoord)

\* The bounds of the clip shapes: the same, and one rectangle that reaches a
\* pixel beyond them on every side.
ClipRects == CullRects \cup {DlRect(-2, -2, MaxCoord + 2, MaxCoord + 2)}

NoRadii == <<Radius(0, 0), Radius(0, 0), Radius(0, 0), Radius(0, 0)>>
NoShape == [kind |-> "none", bounds |-> kEmpty, radii |-> NoRadii, is_rect |-> FALSE, inverse |-> FALSE]

\* No tracker call is in progress.
IdleCall == [pc |-> "idle", fn |-> "none", shape |-> NoShape, op |-> "kIntersect", is_aa |-> FALSE, before |-> kEmpty, result |-> FALSE]

\* DisplayListMatrixClipState(cull_rect, matrix)
ConstructTracker(cull_rect, matrix) ==
  /\ cull_rect_ = ProtectEmpty(cull_rect)
  /\ matrix_ = matrix
  /\ tracker_call = IdleCall

\* A canvas that renders into the target it was given.
Init ==
  /\ ConstructCanvas(FALSE)
  /\ ConstructReactor(TRUE, {})
  /\ enqueuing = {}
  /\ ConstructTracker(DlRect(0, 0, 2, 2), Identity)
  /\ ConstructRenderPass

\* A canvas of either kind: with requires_readback the root pass renders
\* into an offscreen target.
InitReadback ==
  /\ \E requires_readback \in BOOLEAN : ConstructCanvas(requires_readback)
  /\ ConstructReactor(TRUE, {})
  /\ enqueuing = {}
  /\ ConstructTracker(DlRect(0, 0, 2, 2), Identity)
  /\ ConstructRenderPass

\* A reactor of either validity with any set of qualifying threads.
InitReactor ==
  /\ ConstructCanvas(FALSE)
  /\ \E valid \in BOOLEAN, qualifying \in SUBSET Threads :
       ConstructReactor(valid, qualifying)
  /\ enqueuing = {}
  /\ ConstructTracker(DlRect(0, 0, 2, 2), Identity)
  /\ ConstructRenderPass

\* A valid reactor on whose raster thread GL calls can be made; the io
\* thread may or may not qualify.
InitHandles ==
  /\ ConstructCanvas(FALSE)
  /\ \E qualifying \in {{"raster"}, Threads} : ConstructReactor(TRUE, qualifying)
  /\ enqueuing = {}
  /\ ConstructTracker(DlRect(0, 0, 2, 2), Identity)
  /\ ConstructRenderPass

\* A valid reactor whose operations are closures of either kind.
InitNested ==
  /\ ConstructCanvas(FALSE)
  /\ \E qualifying \in SUBSET Threads : ConstructReactor(TRUE, qualifying)
  /\ enqueuing \in SUBSET (1..MaxOps)
  /\ ConstructTracker(DlRect(0, 0, 2, 2), Identity)
  /\ ConstructRenderPass

\* A tracker with any cull rect and any matrix.
InitTracker ==
  /\ ConstructCanvas(FALSE)
  /\ ConstructReactor(TRUE, {})
  /\ enqueuing = {}
  /\ supports_framebuffer_fetch = FALSE
  /\ \E cull_rect \in CullRects, matrix \in Matrices : ConstructTracker(cull_rect, matrix)
  /\ ConstructRenderPass

\* ================================================================ caller
\* The caller's side of the depth budget (spec 4.1): every draw costs one
\* depth value, a Save scope costs what it reserves, a SaveLayer scope costs
\* what it reserves plus one for its composite.  The caller has honoured the
\* budget as long as no scope was charged more than it reserved.  Each open
\* scope also remembers GetSaveCount() at the time it was opened.  The root
\* scope holds kMaxDepth, which no run within the bounds can use up.
Charge(cost) ==
  IF Len(caller_scopes) = 1 THEN caller_scopes
  ELSE SetBack(caller_scopes,
               [Back(caller_scopes) EXCEPT !.budget = Max(0, @ - cost)])
Affordable(cost) == Back(caller_scopes).budget >= cost
OpenScope(cost, r) ==
  Append(Charge(cost), [budget |-> r, save_count |-> Len(transform_stack_),
                        transform |-> Back(transform_stack_).transform,
                        clip_height |-> Back(transform_stack_).clip_height])

Paints ==
  {p \in [alpha : Alphas, blend_mode : PaintBlendModes,
          image_filter : BOOLEAN, color_filter : BOOLEAN] :
     /\ ~(p.image_filter /\ p.color_filter)
     /\ (p.blend_mode # "kSourceOver") => (~p.image_filter /\ ~p.color_filter)
     /\ (p.alpha # AlphaOne) => ~p.color_filter}

DrawEntities ==
  [kind : {"draw"}, blend_mode : PaintBlendModes, opaque : BOOLEAN,
   background : BOOLEAN]

ContentBoundsPromises == {"kContainsContents", "kMayClipContents"}
ClipOperations == {"kIntersect", "kDifference"}
Shapes == {{1}, {2}}

CanCall ==
  /\ ~undefined
  /\ Len(render_passes_) > 0

DrawKinds == {"draw", "subpass"}
IsDrawEntity(e) == e.kind \in DrawKinds

\* The canvas fields take the values of the state record s.
CommitCanvas(s) ==
  /\ transform_stack_' = s.ts
  /\ current_depth_' = s.depth
  /\ render_passes_' = s.passes
  /\ save_layer_state_' = s.sls
  /\ clip_coverage_stack_' = s.ccs
  /\ rendered' = s.log
  /\ last_draw_depth' =
       LET draws == SelectSeq(s.log, IsDrawEntity)
       IN  IF Len(draws) > 0 THEN Back(draws).depth ELSE last_draw_depth
  /\ expired_clip_depth' = s.expired
  /\ dcheck_ok' = s.dok
  /\ undefined' = s.ub
  /\ UNCHANGED <<supports_framebuffer_fetch, requires_readback_>>
  /\ UNCHANGED reactor_vars
  /\ UNCHANGED handle_vars
  /\ UNCHANGED tracker_vars
  /\ UNCHANGED <<pass_vars, filter_vars>>

\* The members after a call that is not a draw of a rect, points or image.
Commit(s) == CommitCanvas(s) /\ last_draw' = <<>> /\ UNCHANGED open_layers

\* =============================================================== actions
CallSave(r) ==
  /\ CanCall
  /\ Len(transform_stack_) < MaxSaveCount
  /\ Len(caller_scopes) < MaxSaveCount
  /\ current_depth_ + r <= MaxDepth
  /\ Commit(Save(State, r))
  /\ caller_scopes' = OpenScope(r, r)
  /\ honoured' = (honoured /\ Affordable(r))
  /\ last_save_layer' = <<>>

CallSaveLayer(paint, bounds, backdrop_filter, bounds_promise, r, can_distribute_opacity, env) ==
  /\ CanCall
  /\ Len(transform_stack_) < MaxSaveCount
  /\ Len(caller_scopes) < MaxSaveCount
  /\ current_depth_ + r <= MaxDepth
  /\ Commit(SaveLayer(State, paint, bounds, backdrop_filter, bounds_promise,
                      r, can_distribute_opacity, env))
  /\ caller_scopes' = OpenScope(r + 1, r)
  /\ honoured' = (honoured /\ Affordable(r + 1))
  /\ last_save_layer' =
       <<[paint |-> paint, bounds |-> bounds,
          backdrop_filter |-> backdrop_filter,
          bounds_promise |-> bounds_promise,
          can_distribute_opacity |-> can_distribute_opacity,
          size_empty |-> env.size_empty]>>

CallRestore(flip) ==
  /\ CanCall
  /\ Commit(Restore(State, flip))
  /\ caller_scopes' = IF Len(caller_scopes) > 1 THEN PopBack(caller_scopes)
                      ELSE caller_scopes
  /\ UNCHANGED honoured
  /\ last_save_layer' = <<>>

CallRestoreToCount(count, flips) ==
  /\ CanCall
  /\ Commit(RestoreToCount(State, count, flips))
  /\ caller_scopes' = SubSeq(caller_scopes, 1,
                             Min(Len(caller_scopes), Max(count, 1)))
  /\ UNCHANGED honoured
  /\ last_save_layer' = <<>>

CallDraw(entity, env) ==
  /\ CanCall
  /\ current_depth_ < MaxDepth
  /\ Commit(AddRenderEntityToCurrentPass(State, entity, FALSE, env))
  /\ caller_scopes' = Charge(1)
  /\ honoured' = (honoured /\ Affordable(1))
  /\ last_save_layer' = <<>>

CallDrawBlurredRRect(paint, style, env) ==
  /\ CanCall
  /\ current_depth_ + 2 <= MaxDepth
  /\ Commit(AttemptDrawBlurredRRect(State, paint, style, env))
  /\ caller_scopes' = Charge(2)
  /\ honoured' = (honoured /\ Affordable(2))
  /\ last_save_layer' = <<>>

\* A draw of a rect, points or an image; depth is what the caller charges
\* for it.
CallShape(call, s, depth) ==
  /\ CanCall
  /\ current_depth_ + depth <= MaxDepth
  /\ CommitCanvas(s)
  /\ last_draw' = <<call>>
  /\ UNCHANGED open_layers
  /\ caller_scopes' = Charge(depth)
  /\ honoured' = (honoured /\ Affordable(depth))
  /\ last_save_layer' = <<>>

CallDrawRect(rect, paint, env) ==
  CallShape([fn |-> "DrawRect", rect |-> rect],
            DrawRect(State, rect, paint, env),
            IF ~paint.stroke /\ paint.blur # "none" THEN 2 ELSE 1)

CallDrawPoints(points, radius, paint, env) ==
  CallShape([fn |-> "DrawPoints", points |-> points, radius |-> radius],
            DrawPoints(State, points, radius, paint, env), 1)

CallDrawImage(image, offset, paint, env) ==
  CallShape([fn |-> "DrawImage", image |-> image],
            DrawImage(State, image, offset, paint, env), 1)

CallDrawImageRect(image, source, dest, paint, env) ==
  CallShape([fn |-> "DrawImageRect", image |-> image, source |-> source,
             dest |-> dest],
            DrawImageRect(State, image, source, dest, paint, env), 1)

\* The calls of a caller that records the scopes it opens: for each open
\* scope, what the canvas made of it and the alpha of its paint.
LayerKind(entry) ==
  IF entry.skipping THEN "skipped"
  ELSE IF entry.rendering_mode \in SubpassModes THEN "subpass"
  ELSE "peephole"

CallRecorded(s, cost, scopes, layers) ==
  /\ CanCall
  /\ CommitCanvas(s)
  /\ caller_scopes' = scopes
  /\ honoured' = (honoured /\ Affordable(cost))
  /\ open_layers' = layers
  /\ last_draw' = <<>>
  /\ last_save_layer' = <<>>

RecordedSave(r) ==
  /\ Len(transform_stack_) < MaxSaveCount
  /\ current_depth_ + r <= MaxDepth
  /\ CallRecorded(Save(State, r), r, OpenScope(r, r),
                  Append(open_layers, [kind |-> "save", alpha |-> AlphaOne]))

RecordedSaveLayer(paint, r, can_distribute_opacity) ==
  LET s == SaveLayer(State, paint, Pixels, FALSE, "kContainsContents", r,
                     can_distribute_opacity,
                     [flip |-> "ok", size_empty |-> FALSE])
  IN  /\ Len(transform_stack_) < MaxSaveCount
      /\ current_depth_ + r <= MaxDepth
      /\ CallRecorded(s, r + 1, OpenScope(r + 1, r),
                      Append(open_layers, [kind |-> LayerKind(Back(s.ts)),
                                           alpha |-> paint.alpha]))

RecordedRestore ==
  /\ Len(transform_stack_) > 1
  /\ CallRecorded(Restore(State, "ok"), 0, PopBack(caller_scopes),
                  PopBack(open_layers))

RecordedDraw(entity) ==
  /\ current_depth_ < MaxDepth
  /\ CallRecorded(AddRenderEntityToCurrentPass(
                    State, entity, FALSE, [flip |-> "ok", pass_ok |-> TRUE]),
                  1, Charge(1), open_layers)

CallClip(shape, clip_op) ==
  /\ CanCall
  /\ GetClipHeight(State) < MaxClips
  /\ Commit(ClipGeometry(State, shape, clip_op))
  /\ UNCHANGED <<caller_scopes, honoured>>
  /\ last_save_layer' = <<>>

CallTranslate(offset) ==
  /\ CanCall
  /\ GetCurrentTransform(State) + offset <= MaxTranslation
  /\ Commit(Concat(State, offset))
  /\ UNCHANGED <<caller_scopes, honoured>>
  /\ last_save_layer' = <<>>

CallEndReplay ==
  /\ CanCall
  /\ Commit(EndReplay(State))
  /\ caller_scopes' = <<RootScope>>
  /\ UNCHANGED honoured
  /\ last_save_layer' = <<>>

\* =============================================================== reactor
\* One step of a thread is one lock region of reactor_gles.cc.
Range(q) == {q[i] : i \in DOMAIN q}

\* Every operation enqueued so far: queued, taken by a flush, or executed.
Enqueued ==
  Range(ops_) \cup Range(executed)
    \cup UNION {Range(threads[t].ops) : t \in Threads}
    \cup UNION {UNION {Range(threads[t].stack[i].ops) :
                         i \in DOMAIN threads[t].stack} : t \in Threads}

At(t, pc) == threads[t].pc = pc

Goto(t, pc) == threads' = [threads EXCEPT ![t].pc = pc]

Return(t, result) ==
  threads' = [threads EXCEPT ![t].pc = "done", ![t].result = result]

\* ReactorGLES::CanReactOnCurrentThread
CanReactOnCurrentThread(t) == t \in can_react

\* ReactorGLES::HasPendingOperations
HasPendingOperations == ops_ # <<>>

\* std::optional<GLuint>: empty, or the one GL name.
nullopt == <<>>

has_value(optional) == optional # nullopt

\* LiveHandle{gl_handle}
LiveHandle(name) == [name |-> name, pending_collection |-> FALSE]

\* ReactorGLES::GetGLHandle
GetGLHandle(handle) ==
  IF handle \in DOMAIN handles_
  THEN IF handles_[handle].pending_collection THEN nullopt
       ELSE IF ~has_value(handles_[handle].name) THEN nullopt
       ELSE handles_[handle].name
  ELSE nullopt

\* The handles of the table that are not pending collection.
LiveHandles == {h \in DOMAIN handles_ : ~handles_[h].pending_collection}

\* CreateHandle: a handle of unknown type is dead and not stored; any other
\* gets its GL name at once on a thread that can react, and none elsewhere.
CreateHandle(t, type) ==
  /\ At(t, "idle")
  /\ IF type = "kUnknown"
     THEN UNCHANGED <<handles_, created_handles, gl_objects>>
     ELSE LET new_handle == Cardinality(created_handles) + 1
              gl_handle == IF CanReactOnCurrentThread(t) THEN <<new_handle>>
                           ELSE nullopt
          IN /\ new_handle <= MaxHandles
             /\ handles_' = handles_ @@ (new_handle :> LiveHandle(gl_handle))
             /\ created_handles' = created_handles \cup {new_handle}
             /\ gl_objects' = gl_objects @@ (new_handle :>
                  [created |-> IF has_value(gl_handle) THEN 1 ELSE 0,
                   deleted |-> 0])
  /\ UNCHANGED <<enqueuing, collected_handles, op_handles, unresolved>>
  /\ UNCHANGED reactor_vars
  /\ UNCHANGED canvas_vars
  /\ UNCHANGED tracker_vars
  /\ UNCHANGED <<pass_vars, filter_vars>>

\* CollectHandle: a handle found in the table is marked; nothing is deleted
\* here.
CollectHandle_Unmarked(t, handle) ==
  /\ At(t, "idle")
  /\ IF handle \in DOMAIN handles_
     THEN /\ UNCHANGED handles_
          /\ collected_handles' = [h \in DOMAIN collected_handles \cup {handle} |->
               IF h \in DOMAIN collected_handles THEN collected_handles[h]
               ELSE has_value(handles_[h].name)]
     ELSE UNCHANGED <<handles_, collected_handles>>
  /\ UNCHANGED <<enqueuing, created_handles, gl_objects, op_handles, unresolved>>
  /\ UNCHANGED reactor_vars
  /\ UNCHANGED canvas_vars
  /\ UNCHANGED tracker_vars
  /\ UNCHANGED <<pass_vars, filter_vars>>

CollectHandle(t, handle) ==
  /\ At(t, "idle")
  /\ IF handle \in DOMAIN handles_
     THEN /\ handles_' = [handles_ EXCEPT ![handle].pending_collection = TRUE]
          /\ collected_handles' = [h \in DOMAIN collected_handles \cup {handle} |->
               IF h \in DOMAIN collected_handles THEN collected_handles[h]
               ELSE has_value(handles_[h].name)]
     ELSE UNCHANGED <<handles_, collected_handles>>
  /\ UNCHANGED <<enqueuing, created_handles, gl_objects, op_handles, unresolved>>
  /\ UNCHANGED reactor_vars
  /\ UNCHANGED canvas_vars
  /\ UNCHANGED tracker_vars
  /\ UNCHANGED <<pass_vars, filter_vars>>

\* AddOperation: a null operation is refused; any other is enqueued, then
\* React() is called and its result dropped.  operation 0 is the null one.
AddOperation_NoFlush(t, operation) ==
  /\ At(t, "idle")
  /\ IF operation = 0
     THEN /\ threads' = [threads EXCEPT ![t] = [IdleThread EXCEPT
                 !.pc = "done", !.call = "AddOperation", !.result = FALSE]]
          /\ UNCHANGED <<ops_, op_handles>>
     ELSE /\ ops_' = Append(ops_, operation)
          /\ op_handles' = op_handles @@ (operation :> LiveHandles)
          /\ threads' = [threads EXCEPT ![t] = [IdleThread EXCEPT
                 !.pc = "done", !.call = "AddOperation",
                 !.op = operation, !.result = TRUE]]
  /\ UNCHANGED <<is_valid_, ops_execution_mutex_, can_react, executed>>
  /\ UNCHANGED <<handles_, enqueuing, created_handles, collected_handles, gl_objects, unresolved>>
  /\ UNCHANGED canvas_vars
  /\ UNCHANGED tracker_vars
  /\ UNCHANGED <<pass_vars, filter_vars>>

AddOperation(t, operation) ==
  /\ At(t, "idle")
  /\ IF operation = 0
     THEN /\ threads' = [threads EXCEPT ![t] = [IdleThread EXCEPT
                 !.pc = "done", !.call = "AddOperation", !.result = FALSE]]
          /\ UNCHANGED <<ops_, op_handles>>
     ELSE /\ ops_' = Append(ops_, operation)
          /\ op_handles' = op_handles @@ (operation :> LiveHandles)
          /\ threads' = [threads EXCEPT ![t] = [IdleThread EXCEPT
                 !.pc = "React", !.call = "AddOperation",
                 !.op = operation]]
  /\ UNCHANGED <<is_valid_, ops_execution_mutex_, can_react, executed>>
  /\ UNCHANGED <<handles_, enqueuing, created_handles, collected_handles, gl_objects, unresolved>>
  /\ UNCHANGED canvas_vars
  /\ UNCHANGED tracker_vars
  /\ UNCHANGED <<pass_vars, filter_vars>>

\* A direct call of React().
CallReact(t) ==
  /\ At(t, "idle")
  /\ threads' = [threads EXCEPT ![t] = [IdleThread EXCEPT
         !.pc = "React", !.call = "React"]]
  /\ UNCHANGED <<ops_, is_valid_, ops_execution_mutex_, can_react, executed>>
  /\ UNCHANGED handle_vars
  /\ UNCHANGED canvas_vars
  /\ UNCHANGED tracker_vars
  /\ UNCHANGED <<pass_vars, filter_vars>>

\* The result of the React() that ends here: AddOperation returns true
\* whatever it is.  An AddOperation called by an operation returns into
\* that operation, and the flush it interrupted goes on.
ReactReturns(t, result) ==
  IF threads[t].stack = <<>>
  THEN Return(t, IF threads[t].call = "AddOperation" THEN TRUE ELSE result)
  ELSE LET outer == threads[t].stack[Len(threads[t].stack)]
       IN threads' = [threads EXCEPT ![t] = [pc |-> "op", call |-> outer.call,
              op |-> outer.op, result |-> FALSE, ops |-> outer.ops,
              stack |-> SubSeq(threads[t].stack, 1, Len(threads[t].stack) - 1)]]

\* React(): entry.
React_Unchecked(t) ==
  /\ At(t, "React")
  /\ Goto(t, "while")
  /\ UNCHANGED <<ops_, is_valid_, ops_execution_mutex_, can_react, executed>>
  /\ UNCHANGED handle_vars
  /\ UNCHANGED canvas_vars
  /\ UNCHANGED tracker_vars
  /\ UNCHANGED <<pass_vars, filter_vars>>

React(t) ==
  /\ At(t, "React")
  /\ IF ~CanReactOnCurrentThread(t) THEN ReactReturns(t, FALSE)
     ELSE Goto(t, "while")
  /\ UNCHANGED <<ops_, is_valid_, ops_execution_mutex_, can_react, executed>>
  /\ UNCHANGED handle_vars
  /\ UNCHANGED canvas_vars
  /\ UNCHANGED tracker_vars
  /\ UNCHANGED <<pass_vars, filter_vars>>

\* React(): the loop test.
ReactWhile(t) ==
  /\ At(t, "while")
  /\ IF HasPendingOperations THEN Goto(t, "lock") ELSE ReactReturns(t, TRUE)
  /\ UNCHANGED <<ops_, is_valid_, ops_execution_mutex_, can_react, executed>>
  /\ UNCHANGED handle_vars
  /\ UNCHANGED canvas_vars
  /\ UNCHANGED tracker_vars
  /\ UNCHANGED <<pass_vars, filter_vars>>

\* React(): Lock execution_lock(ops_execution_mutex_).  The thread waits
\* until the mutex is free.
ReactLock_NoMutex(t) ==
  /\ At(t, "lock")
  /\ ops_execution_mutex_' = t
  /\ Goto(t, "ReactOnce")
  /\ UNCHANGED <<ops_, is_valid_, can_react, executed>>
  /\ UNCHANGED handle_vars
  /\ UNCHANGED canvas_vars
  /\ UNCHANGED tracker_vars
  /\ UNCHANGED <<pass_vars, filter_vars>>

ReactLock(t) ==
  /\ At(t, "lock")
  /\ ops_execution_mutex_ = "none"
  /\ ops_execution_mutex_' = t
  /\ Goto(t, "ReactOnce")
  /\ UNCHANGED <<ops_, is_valid_, can_react, executed>>
  /\ UNCHANGED handle_vars
  /\ UNCHANGED canvas_vars
  /\ UNCHANGED tracker_vars
  /\ UNCHANGED <<pass_vars, filter_vars>>

\* ReactOnce(): an invalid reactor runs nothing, and React returns false,
\* which ends the scope of the execution lock.
ReactOnce(t) ==
  /\ At(t, "ReactOnce")
  /\ IF ~is_valid_
     THEN /\ ReactReturns(t, FALSE)
          /\ ops_execution_mutex_' = "none"
     ELSE /\ Goto(t, "ConsolidateHandles")
          /\ UNCHANGED ops_execution_mutex_
  /\ UNCHANGED <<ops_, is_valid_, can_react, executed>>
  /\ UNCHANGED handle_vars
  /\ UNCHANGED canvas_vars
  /\ UNCHANGED tracker_vars
  /\ UNCHANGED <<pass_vars, filter_vars>>

\* ConsolidateHandles(): under the handles lock, the GL object of a handle
\* pending collection is deleted if it has one and the entry is erased; a
\* live handle without a name gets one.  CreateGLHandle fails for no type
\* that CreateHandle stores, so the result is true.
ConsolidateHandles(t) ==
  /\ At(t, "ConsolidateHandles")
  /\ handles_' = [h \in LiveHandles |->
       IF has_value(handles_[h].name) THEN handles_[h]
       ELSE [handles_[h] EXCEPT !.name = <<h>>]]
  /\ gl_objects' = [h \in DOMAIN gl_objects |->
       IF h \notin DOMAIN handles_ THEN gl_objects[h]
       ELSE IF handles_[h].pending_collection
       THEN IF has_value(handles_[h].name)
            THEN [gl_objects[h] EXCEPT !.deleted = @ + 1]
            ELSE gl_objects[h]
       ELSE IF ~has_value(handles_[h].name)
       THEN [gl_objects[h] EXCEPT !.created = @ + 1]
       ELSE gl_objects[h]]
  /\ Goto(t, "FlushOps")
  /\ UNCHANGED <<ops_, is_valid_, ops_execution_mutex_, can_react, executed>>
  /\ UNCHANGED <<enqueuing, created_handles, collected_handles, op_handles, unresolved>>
  /\ UNCHANGED canvas_vars
  /\ UNCHANGED tracker_vars
  /\ UNCHANGED <<pass_vars, filter_vars>>

\* FlushOps(): under the ops lock, the queue is swapped into a local list.
FlushOps_Copy(t) ==
  /\ At(t, "FlushOps")
  /\ threads' = [threads EXCEPT ![t].pc = "op", ![t].ops = ops_]
  /\ UNCHANGED ops_
  /\ UNCHANGED <<is_valid_, ops_execution_mutex_, can_react, executed>>
  /\ UNCHANGED handle_vars
  /\ UNCHANGED canvas_vars
  /\ UNCHANGED tracker_vars
  /\ UNCHANGED <<pass_vars, filter_vars>>

FlushOps(t) ==
  /\ At(t, "FlushOps")
  /\ threads' = [threads EXCEPT ![t].pc = "op", ![t].ops = ops_]
  /\ ops_' = <<>>
  /\ UNCHANGED <<is_valid_, ops_execution_mutex_, can_react, executed>>
  /\ UNCHANGED handle_vars
  /\ UNCHANGED canvas_vars
  /\ UNCHANGED tracker_vars
  /\ UNCHANGED <<pass_vars, filter_vars>>

\* The operation a running closure enqueues, or the null operation when the
\* closure enqueues none.
NestedOperation(op) ==
  IF op \in enqueuing /\ Cardinality(Enqueued) < MaxOps
  THEN Cardinality(Enqueued) + 1 ELSE 0

\* FlushOps(): the loop over the local list, one operation a step, with
\* neither the ops lock nor the handles lock held.  The operation looks up
\* the handles that were live when it was enqueued; a closure of the set
\* enqueuing then calls AddOperation, which enqueues and calls React().
\* After the last operation FlushOps and ReactOnce return true, the
\* execution lock is released and the loop of React goes on.
RunOperation(t) ==
  /\ At(t, "op")
  /\ IF threads[t].ops # <<>>
     THEN LET op == Head(threads[t].ops)
              operation == NestedOperation(op)
          IN /\ executed' = Append(executed, op)
             /\ unresolved' = unresolved \cup
                  {<<op, h>> : h \in {l \in op_handles[op] \cap LiveHandles :
                                        ~has_value(GetGLHandle(l))}}
             /\ IF operation = 0
                THEN /\ threads' = [threads EXCEPT ![t].ops = Tail(@)]
                     /\ UNCHANGED <<ops_, op_handles>>
                ELSE /\ ops_' = Append(ops_, operation)
                     /\ op_handles' = op_handles @@ (operation :> LiveHandles)
                     /\ threads' = [threads EXCEPT ![t] = [pc |-> "React",
                            call |-> "AddOperation", op |-> operation,
                            result |-> FALSE, ops |-> <<>>,
                            stack |-> Append(threads[t].stack,
                               [call |-> threads[t].call, op |-> threads[t].op,
                                ops |-> Tail(threads[t].ops)])]]
             /\ UNCHANGED ops_execution_mutex_
     ELSE /\ Goto(t, "while")
          /\ ops_execution_mutex_' = "none"
          /\ UNCHANGED <<ops_, executed, op_handles, unresolved>>
  /\ UNCHANGED <<is_valid_, can_react>>
  /\ UNCHANGED <<handles_, enqueuing, created_handles, collected_handles, gl_objects>>
  /\ UNCHANGED canvas_vars
  /\ UNCHANGED tracker_vars
  /\ UNCHANGED <<pass_vars, filter_vars>>

\* React(): Lock execution_lock(ops_execution_mutex_) on the thread that
\* holds the mutex, inside an operation of its own flush.  The mutex is not
\* recursive and locking it again is undefined: the thread waits for itself
\* for good, or the lock fails and the process is aborted.
Relock(t) ==
  /\ At(t, "lock")
  /\ ops_execution_mutex_ = t
  /\ \E outcome \in {"deadlock", "abort"} :
       threads' = IF outcome = "deadlock"
                  THEN [threads EXCEPT ![t].pc = "deadlock"]
                  ELSE [u \in Threads |-> [threads[u] EXCEPT !.pc = "abort"]]
  /\ UNCHANGED <<ops_, is_valid_, ops_execution_mutex_, can_react, executed>>
  /\ UNCHANGED handle_vars
  /\ UNCHANGED canvas_vars
  /\ UNCHANGED tracker_vars
  /\ UNCHANGED <<pass_vars, filter_vars>>

\* The caller has the result and is free to call again.
Returned(t) ==
  /\ At(t, "done")
  /\ threads' = [threads EXCEPT ![t] = IdleThread]
  /\ UNCHANGED <<ops_, is_valid_, ops_execution_mutex_, can_react, executed>>
  /\ UNCHANGED handle_vars
  /\ UNCHANGED canvas_vars
  /\ UNCHANGED tracker_vars
  /\ UNCHANGED <<pass_vars, filter_vars>>

\* The steps a thread takes inside a call.
ThreadStep(t) ==
  \/ React(t)
  \/ ReactWhile(t)
  \/ ReactLock(t)
  \/ ReactOnce(t)
  \/ ConsolidateHandles(t)
  \/ FlushOps(t)
  \/ RunOperation(t)
  \/ Returned(t)

\* The next operation to enqueue, or the null operation.
NextOperations ==
  {0} \cup {op \in {Cardinality(Enqueued) + 1} : op <= MaxOps}

\* ========================================================== RenderPassVK
\* One command of the pass: SetPipeline, the bindings, Draw.  image_workspace_
\* and buffer_workspace_ hold kMaxBindings entries each.
\* The other members stay as they are.
PassOnly ==
  /\ UNCHANGED canvas_vars
  /\ UNCHANGED reactor_vars
  /\ UNCHANGED handle_vars
  /\ UNCHANGED tracker_vars
  /\ UNCHANGED filter_vars

\* image_workspace_[bound_image_offset_++] = image_info;
\* write_workspace_[descriptor_write_offset_++] = write_set;
\* A write at an index past the last entry is undefined; what it destroys
\* is not followed up, the run ends there.
WriteImageInfo ==
  /\ workspace_overrun' = (workspace_overrun \/ bound_image_offset_ >= kMaxBindings)
  /\ bound_image_offset_' = bound_image_offset_ + 1
  /\ descriptor_write_offset_' = descriptor_write_offset_ + 1

\* SetPipeline: a pipeline that reads the colour attachment as an input
\* attachment takes one entry of the image workspace, and is dropped when
\* there is none left.
SetPipeline(pipeline, uses_input_attachments) ==
  /\ ~workspace_overrun
  /\ IF ~pipeline
     THEN /\ pipeline_' = FALSE
          /\ UNCHANGED <<bound_image_offset_, descriptor_write_offset_, workspace_overrun>>
     ELSE IF ~uses_input_attachments
     THEN /\ pipeline_' = TRUE
          /\ UNCHANGED <<bound_image_offset_, descriptor_write_offset_, workspace_overrun>>
     ELSE IF bound_image_offset_ >= kMaxBindings
     THEN /\ pipeline_' = FALSE
          /\ UNCHANGED <<bound_image_offset_, descriptor_write_offset_, workspace_overrun>>
     ELSE /\ pipeline_' = TRUE
          /\ WriteImageInfo
  /\ bind_result' = "none"
  /\ UNCHANGED bound_buffer_offset_
  /\ PassOnly

\* BindResource(binding, type, view): a buffer.
BindResource_Buffer(buffer, tracked) ==
  /\ ~workspace_overrun
  /\ IF bound_buffer_offset_ >= kMaxBindings \/ ~buffer \/ ~tracked
     THEN /\ bind_result' = "false"
          /\ UNCHANGED <<bound_buffer_offset_, descriptor_write_offset_>>
     ELSE /\ bind_result' = "true"
          /\ bound_buffer_offset_' = bound_buffer_offset_ + 1
          /\ descriptor_write_offset_' = descriptor_write_offset_ + 1
  /\ UNCHANGED <<pipeline_, bound_image_offset_, workspace_overrun>>
  /\ PassOnly

\* BindResource(stage, type, slot, metadata, texture, sampler): a texture.
\* The test for a full workspace reads bound_buffer_offset_.
BindResource_Texture(valid, sampler, tracked) ==
  /\ ~workspace_overrun
  /\ IF bound_buffer_offset_ >= kMaxBindings \/ ~valid \/ ~sampler \/ ~tracked
     THEN /\ bind_result' = "false"
          /\ UNCHANGED <<bound_image_offset_, descriptor_write_offset_, workspace_overrun>>
     ELSE /\ bind_result' = "true"
          /\ WriteImageInfo
  /\ UNCHANGED <<pipeline_, bound_buffer_offset_>>
  /\ PassOnly

\* Draw: without a pipeline, or when the pipeline variant or the descriptor
\* set cannot be had, the command is left as it is; otherwise it is encoded
\* and the workspaces are empty again.
Draw(encoded) ==
  /\ ~workspace_overrun
  /\ IF ~pipeline_ \/ ~encoded
     THEN UNCHANGED <<pipeline_, bound_image_offset_, bound_buffer_offset_, descriptor_write_offset_>>
     ELSE /\ pipeline_' = FALSE
          /\ bound_image_offset_' = 0
          /\ bound_buffer_offset_' = 0
          /\ descriptor_write_offset_' = 0
  /\ bind_result' = "none"
  /\ UNCHANGED workspace_overrun
  /\ PassOnly

\* =========================================================== ColorFilter
\* A colour is one channel, 0..MaxChannel; MaxChannel is full intensity.
Colors == 0..MaxChannel

Clamp(value) == IF value < 0 THEN 0 ELSE IF value > MaxChannel THEN MaxChannel ELSE value

\* Color::SRGBToLinear: the decoding gamma, here the square.
SRGBToLinear(color) == (color * color) \div MaxChannel

\* Color::LinearToSRGB: the encoding gamma, here the square root, rounded up.
LinearToSRGB(color) ==
  CHOOSE s \in Colors :
    /\ s * s >= color * MaxChannel
    /\ \A smaller \in Colors : smaller * smaller >= color * MaxChannel => s <= smaller

\* Color::Blend(source, blend_mode), called on the destination colour.
Blend(destination, source, blend_mode) ==
  CASE blend_mode = "kSource" -> source
    [] blend_mode = "kDestination" -> destination
    [] blend_mode = "kPlus" -> Clamp(destination + source)

\* Color::ApplyColorMatrix: the channel is scaled and offset, then clamped.
ApplyColorMatrix(color, color_matrix) ==
  Clamp(color_matrix.scale * color + color_matrix.offset)

\* ColorFilterContents::MakeBlend, MakeColorMatrix, MakeSrgbToLinearFilter,
\* MakeLinearToSrgbFilter: the contents that filter their input on the GPU.
MakeBlend(blend_mode, input, color) ==
  [type |-> "kBlend", input |-> input, blend_mode |-> blend_mode,
   color |-> color, absorb_opacity |-> "kNo"]

MakeColorMatrix(input, color_matrix) ==
  [type |-> "kColorMatrix", input |-> input, color_matrix |-> color_matrix,
   absorb_opacity |-> "kNo"]

MakeSrgbToLinearFilter(input) ==
  [type |-> "kSrgbToLinear", input |-> input, absorb_opacity |-> "kNo"]

MakeLinearToSrgbFilter(input) ==
  [type |-> "kLinearToSrgb", input |-> input, absorb_opacity |-> "kNo"]

SetAbsorbOpacity(filter, absorb_opacity) ==
  [filter EXCEPT !.absorb_opacity = absorb_opacity]

\* FilterInput::Make of a colour: the snapshot every pixel of which has it.
ColorInput(color) == [type |-> "kInput", color |-> color]

\* The colour the contents render for a pixel: the colour of their input,
\* transformed.
RECURSIVE RenderColor(_)
RenderColor(contents) ==
  CASE contents.type = "kInput" -> contents.color
    [] contents.type = "kBlend" ->
         Blend(RenderColor(contents.input), contents.color, contents.blend_mode)
    [] contents.type = "kColorMatrix" ->
         ApplyColorMatrix(RenderColor(contents.input), contents.color_matrix)
    [] contents.type = "kSrgbToLinear" -> SRGBToLinear(RenderColor(contents.input))
    [] contents.type = "kLinearToSrgb" -> LinearToSRGB(RenderColor(contents.input))

\* ColorFilter::MakeBlend, MakeMatrix, MakeSrgbToLinear, MakeLinearToSrgb,
\* MakeComposed
BlendColorFilter(blend_mode, color) ==
  [kind |-> "BlendColorFilter", blend_mode_ |-> blend_mode, color_ |-> color]

MatrixColorFilter(color_matrix) ==
  [kind |-> "MatrixColorFilter", color_matrix_ |-> color_matrix]

SrgbToLinearColorFilter == [kind |-> "SrgbToLinearColorFilter"]

LinearToSrgbColorFilter == [kind |-> "LinearToSrgbColorFilter"]

ComposedColorFilter(outer, inner) ==
  [kind |-> "ComposedColorFilter", outer_ |-> outer, inner_ |-> inner]

\* WrapWithGPUColorFilter of every filter class.
RECURSIVE WrapWithGPUColorFilter(_, _, _)
WrapWithGPUColorFilter(filter, input, absorb_opacity) ==
  CASE filter.kind = "BlendColorFilter" ->
         SetAbsorbOpacity(MakeBlend(filter.blend_mode_, input, filter.color_),
                          absorb_opacity)
    [] filter.kind = "MatrixColorFilter" ->
         SetAbsorbOpacity(MakeColorMatrix(input, filter.color_matrix_),
                          absorb_opacity)
    [] filter.kind = "SrgbToLinearColorFilter" ->
         SetAbsorbOpacity(MakeSrgbToLinearFilter(input), absorb_opacity)
    [] filter.kind = "LinearToSrgbColorFilter" ->
         SetAbsorbOpacity(MakeSrgbToLinearFilter(input), absorb_opacity)
    [] filter.kind = "ComposedColorFilter" ->
         LET inner == WrapWithGPUColorFilter(filter.inner_, input, "kNo")
         IN  WrapWithGPUColorFilter(filter.outer_, inner, absorb_opacity)

\* GetCPUColorFilterProc of every filter class, applied to a colour.
RECURSIVE GetCPUColorFilterProc(_, _)
GetCPUColorFilterProc(filter, color) ==
  CASE filter.kind = "BlendColorFilter" ->
         Blend(color, filter.color_, filter.blend_mode_)
    [] filter.kind = "MatrixColorFilter" ->
         ApplyColorMatrix(color, filter.color_matrix_)
    [] filter.kind = "SrgbToLinearColorFilter" -> SRGBToLinear(color)
    [] filter.kind = "LinearToSrgbColorFilter" -> LinearToSRGB(color)
    [] filter.kind = "ComposedColorFilter" ->
         GetCPUColorFilterProc(filter.outer_,
                               GetCPUColorFilterProc(filter.inner_, color))

\* A colour is filtered on both paths: by the CPU procedure, and by
\* rendering the GPU filter wrapped around an input of that colour.
FilterColor(filter, color) ==
  /\ filtered' = <<[filter |-> filter, color |-> color,
                    cpu |-> GetCPUColorFilterProc(filter, color),
                    gpu |-> RenderColor(WrapWithGPUColorFilter(
                              filter, ColorInput(color), "kYes"))]>>
  /\ UNCHANGED canvas_vars
  /\ UNCHANGED reactor_vars
  /\ UNCHANGED handle_vars
  /\ UNCHANGED tracker_vars
  /\ UNCHANGED pass_vars

\* ======================================================== specifications
\* Spec: a caller that honours the depth budget records save/restore scopes,
\* save layers on every path, draws and clips; flips may fail.
\* =============================================================== tracker
\* A call of the tracker runs the method as a whole and leaves its arguments
\* and the cull rect it started from in tracker_call, until the caller goes
\* on to its next call.
RectShape(rect) == [NoShape EXCEPT !.kind = "rect", !.bounds = rect]
OvalShape(bounds) == [NoShape EXCEPT !.kind = "oval", !.bounds = bounds]
RRectShape(bounds, radii) == [NoShape EXCEPT !.kind = "rrect", !.bounds = bounds, !.radii = radii]
PathShape(bounds, is_rect, inverse) == [NoShape EXCEPT !.kind = "path", !.bounds = bounds, !.is_rect = is_rect, !.inverse = inverse]

\* The corner radii tried on a round rect of the given bounds: none, those
\* of the inscribed oval, half a pixel at every corner, and half a pixel at
\* the two left corners only.
RRectRadii(bounds) ==
  LET width == bounds.r - bounds.l
      height == bounds.b - bounds.t
      all(radius) == <<radius, radius, radius, radius>>
  IN  {NoRadii}
        \cup (IF width > 0 /\ width % 2 = 0 /\ height > 0 /\ height % 2 = 0
              THEN {all(Radius(width \div 2, height \div 2))} ELSE {})
        \cup (IF width >= 2 /\ height >= 2 THEN {all(Radius(1, 1))} ELSE {})
        \cup (IF width >= 1 /\ height >= 2
              THEN {<<Radius(1, 1), Radius(0, 0), Radius(0, 0), Radius(1, 1)>>} ELSE {})

CallTracker(fn, shape, op, is_aa, cull_rect, result) ==
  /\ tracker_call.pc = "idle"
  /\ cull_rect_' = cull_rect
  /\ tracker_call' = [pc |-> "returned", fn |-> fn, shape |-> shape, op |-> op, is_aa |-> is_aa, before |-> cull_rect_, result |-> result]
  /\ UNCHANGED matrix_
  /\ UNCHANGED <<canvas_vars, reactor_vars, handle_vars, pass_vars, filter_vars>>

CallClipRect(rect, op, is_aa) ==
  CallTracker("clipRect", RectShape(rect), op, is_aa, clipRect(cull_rect_, matrix_, rect, op, is_aa), FALSE)

CallClipOval(bounds, op, is_aa) ==
  CallTracker("clipOval", OvalShape(bounds), op, is_aa, clipOval(cull_rect_, matrix_, bounds, op, is_aa), FALSE)

CallClipRRect(rrect, op, is_aa) ==
  CallTracker("clipRRect", rrect, op, is_aa, clipRRect(cull_rect_, matrix_, rrect, op, is_aa), FALSE)

CallClipPath(path, op, is_aa) ==
  CallTracker("clipPath", path, op, is_aa, clipPath(cull_rect_, matrix_, path, op, is_aa), FALSE)

CallContentCulled(content_bounds) ==
  CallTracker("content_culled", RectShape(content_bounds), "kIntersect", FALSE, cull_rect_, content_culled(cull_rect_, matrix_, content_bounds))

\* The caller goes on to its next call.
TrackerReturns ==
  /\ tracker_call.pc = "returned"
  /\ tracker_call' = IdleCall
  /\ UNCHANGED <<cull_rect_, matrix_>>
  /\ UNCHANGED <<canvas_vars, reactor_vars, handle_vars, pass_vars, filter_vars>>

PlainPaint == [alpha |-> AlphaOne, blend_mode |-> "kSourceOver",
               image_filter |-> FALSE, color_filter |-> FALSE]
ScreenPaint == [PlainPaint EXCEPT !.blend_mode = "kScreen"]
PlainEntity == [kind |-> "draw", blend_mode |-> "kSourceOver",
                opaque |-> FALSE, background |-> FALSE]
ScreenEntity == [PlainEntity EXCEPT !.blend_mode = "kScreen"]
SomeFlipOutcomes == {"ok", "no_texture"}

Next ==
  \/ \E r \in 0..MaxReserve : Affordable(r) /\ CallSave(r)
  \/ \E paint \in {PlainPaint, ScreenPaint}, bounds \in {Pixels, {}},
        backdrop_filter \in BOOLEAN, r \in 0..MaxReserve,
        can_distribute_opacity \in BOOLEAN :
       \E flip \in (IF backdrop_filter THEN SomeFlipOutcomes ELSE {"ok"}) :
         /\ Affordable(r + 1)
         /\ CallSaveLayer(paint, bounds, backdrop_filter, "kContainsContents",
                          r, can_distribute_opacity,
                          [flip |-> flip, size_empty |-> FALSE])
  \/ \E flip \in SomeFlipOutcomes : CallRestore(flip)
  \/ \E entity \in {PlainEntity, ScreenEntity}, flip \in SomeFlipOutcomes :
       /\ Affordable(1)
       /\ CallDraw(entity, [flip |-> flip, pass_ok |-> TRUE])
  \/ \E shape \in {{1}} : CallClip(shape, "kIntersect")

Spec == Init /\ [][Next]_vars

\* SpecSkip: scopes, plain save layers (some with empty bounds, which are
\* skipped), draws and clips; no flip is needed.
NextSkip ==
  \/ \E r \in 0..MaxReserve : Affordable(r) /\ CallSave(r)
  \/ \E bounds \in {Pixels, {}}, r \in 0..MaxReserve :
       /\ Affordable(r + 1)
       /\ CallSaveLayer(PlainPaint, bounds, FALSE, "kMayClipContents", r,
                        FALSE, [flip |-> "ok", size_empty |-> FALSE])
  \/ CallRestore("ok")
  \/ Affordable(1) /\ CallDraw(PlainEntity, [flip |-> "ok", pass_ok |-> TRUE])
  \/ CallClip({1}, "kIntersect")

SpecSkip == Init /\ [][NextSkip]_vars

\* SpecLayer: save layers with every combination of paint, backdrop filter,
\* bounds promise and opacity distribution, inside scopes whose coverage a
\* clip may have emptied.
LayerPaints ==
  {paint \in Paints : paint.alpha = AlphaOne \/ CanApplyOpacityPeephole(paint)}

NextLayer ==
  \/ \E paint \in LayerPaints, backdrop_filter \in BOOLEAN,
        bounds_promise \in ContentBoundsPromises,
        can_distribute_opacity \in BOOLEAN, r \in 0..1 :
       \E flip \in (IF backdrop_filter THEN SomeFlipOutcomes ELSE {"ok"}) :
         /\ Affordable(r + 1)
         /\ CallSaveLayer(paint, Pixels, backdrop_filter, bounds_promise, r,
                          can_distribute_opacity,
                          [flip |-> flip, size_empty |-> FALSE])
  \/ \E flip \in SomeFlipOutcomes : CallRestore(flip)
  \/ CallClip({}, "kIntersect")

SpecLayer == Init /\ [][NextLayer]_vars

\* SpecCoverage: save layers whose bounds, clip coverage or pixel size may
\* leave nothing to render, with draws inside and after them.
ImageFilterPaint == [PlainPaint EXCEPT !.image_filter = TRUE]

NextCoverage ==
  \/ \E paint \in {PlainPaint, ImageFilterPaint}, bounds \in {Pixels, {1}, {}},
        can_distribute_opacity \in BOOLEAN, r \in 0..1 :
       \E size_empty \in (IF paint.image_filter THEN BOOLEAN ELSE {FALSE}) :
         /\ Affordable(r + 1)
         /\ CallSaveLayer(paint, bounds, FALSE, "kContainsContents", r,
                          can_distribute_opacity,
                          [flip |-> "ok", size_empty |-> size_empty])
  \/ CallRestore("ok")
  \/ Affordable(1) /\ CallDraw(PlainEntity, [flip |-> "ok", pass_ok |-> TRUE])
  \/ \E shape \in {{2}, {}} : CallClip(shape, "kIntersect")

SpecCoverage == Init /\ [][NextCoverage]_vars

\* SpecDraw: draws of every kind (plain, advanced blend, solid background,
\* blurred rounded rectangle) in scopes, plain and backdrop-filter save
\* layers; flips may fail.
BackgroundEntity == [PlainEntity EXCEPT !.opaque = TRUE, !.background = TRUE]
DrawnEntities == {PlainEntity, ScreenEntity, BackgroundEntity}
HalfPaint == [PlainPaint EXCEPT !.alpha = AlphaOne \div 2]
RRectPaints == {PlainPaint, HalfPaint, ScreenPaint}
RRectEnvs ==
  [flip : {"ok"}, pass_ok : {TRUE}, size_empty : {FALSE},
   restore_flip : SomeFlipOutcomes, covers : BOOLEAN]

NextDraw ==
  \/ Affordable(1) /\ CallSave(1)
  \/ \E bounds \in {Pixels, {}}, backdrop_filter \in BOOLEAN, r \in 0..1 :
       \E flip \in (IF backdrop_filter THEN SomeFlipOutcomes ELSE {"ok"}) :
         /\ Affordable(r + 1)
         /\ CallSaveLayer(PlainPaint, bounds, backdrop_filter,
                          "kContainsContents", r, FALSE,
                          [flip |-> flip, size_empty |-> FALSE])
  \/ CallRestore("ok")
  \/ \E entity \in DrawnEntities, flip \in SomeFlipOutcomes :
       /\ Affordable(1)
       /\ CallDraw(entity, [flip |-> flip, pass_ok |-> TRUE])
  \/ \E paint \in RRectPaints, style \in BlurStyles, env \in RRectEnvs :
       /\ Affordable(2)
       /\ CallDrawBlurredRRect(paint, style, env)
  \/ CallClip({1}, "kIntersect")

SpecDraw == Init /\ [][NextDraw]_vars

\* SpecShapes: draws of rects, points and images, with degenerate and with
\* ordinary arguments, in scopes and plain save layers.
ShapePaint(stroke, blur) ==
  [alpha |-> AlphaOne, blend_mode |-> "kSourceOver", image_filter |-> FALSE,
   color_filter |-> FALSE, stroke |-> stroke, blur |-> blur]
ShapeEnvs ==
  [flip : {"ok"}, pass_ok : {TRUE}, size_empty : {FALSE},
   restore_flip : {"ok"}, covers : BOOLEAN, opaque : {FALSE}]
UnitRect == DlRect(0, 0, 2, 2)
SomeRects == {kEmpty, UnitRect}
Textures == {nullptr, Texture(0, 2), Texture(2, 2)}

NextShapes ==
  \/ Affordable(1) /\ CallSave(1)
  \/ \E r \in 0..1 :
       /\ Affordable(r + 1)
       /\ CallSaveLayer(PlainPaint, Pixels, FALSE, "kContainsContents", r,
                        FALSE, [flip |-> "ok", size_empty |-> FALSE])
  \/ CallRestore("ok")
  \/ \E rect \in SomeRects, stroke \in BOOLEAN, blur \in {"none", "kNormal"} :
       \E env \in ShapeEnvs :
         /\ Affordable(IF ~stroke /\ blur # "none" THEN 2 ELSE 1)
         /\ CallDrawRect(rect, ShapePaint(stroke, blur), env)
  \/ \E points \in 0..1, radius \in -1..1, env \in ShapeEnvs :
       /\ Affordable(1)
       /\ CallDrawPoints(points, radius, ShapePaint(FALSE, "none"), env)
  \/ \E image \in Textures, env \in ShapeEnvs :
       /\ Affordable(1)
       /\ CallDrawImage(image, 0, ShapePaint(FALSE, "none"), env)
  \/ \E image \in Textures, source \in SomeRects, dest \in SomeRects :
       \E env \in ShapeEnvs :
         /\ Affordable(1)
         /\ CallDrawImageRect(image, source, dest, ShapePaint(FALSE, "none"),
                              env)

SpecShapes == Init /\ [][NextShapes]_vars

\* SpecFlip: clips of different coverage are recorded, then backdrop-filter
\* save layers, advanced blends and the Restore of advanced-blend layers
\* flip the backdrop.
NextFlip ==
  \/ CallSave(0)
  \/ \E paint \in {PlainPaint, ScreenPaint}, backdrop_filter \in BOOLEAN :
       \E flip \in (IF backdrop_filter THEN SomeFlipOutcomes ELSE {"ok"}) :
         /\ Affordable(1)
         /\ CallSaveLayer(paint, Pixels, backdrop_filter,
                          "kContainsContents", 0, FALSE,
                          [flip |-> flip, size_empty |-> FALSE])
  \/ \E flip \in SomeFlipOutcomes : CallRestore(flip)
  \/ \E entity \in {PlainEntity, ScreenEntity}, flip \in SomeFlipOutcomes :
       /\ Affordable(1)
       /\ CallDraw(entity, [flip |-> flip, pass_ok |-> TRUE])
  \/ CallClip({2}, "kDifference")
  \/ CallClip({1}, "kIntersect")

SpecFlip == Init /\ [][NextFlip]_vars

\* SpecClip: clips of every operation, also of empty coverage, in Save
\* frames, save layers and skipped frames; the Restore of an advanced-blend
\* layer may fail to flip.
NextClip ==
  \/ CallSave(0)
  \/ \E paint \in {PlainPaint, ScreenPaint}, bounds \in {Pixels, {}} :
       /\ Affordable(1)
       /\ CallSaveLayer(paint, bounds, FALSE, "kContainsContents", 0, FALSE,
                        [flip |-> "ok", size_empty |-> FALSE])
  \/ \E flip \in SomeFlipOutcomes : CallRestore(flip)
  \/ Affordable(1) /\ CallDraw(PlainEntity, [flip |-> "ok", pass_ok |-> TRUE])
  \/ \E shape \in Shapes, clip_op \in ClipOperations : CallClip(shape, clip_op)

SpecClip == Init /\ [][NextClip]_vars

\* SpecRestore: scopes and save layers, plain and with an advanced blend,
\* are closed one at a time, also when none is open, and several at a time
\* down to any count; flips may fail.
RestoreFlips == {[i \in 1..(MaxSaveCount + 1) |-> flip] : flip \in SomeFlipOutcomes}

NextRestore ==
  \/ Affordable(1) /\ CallSave(1)
  \/ \E paint \in {PlainPaint, ScreenPaint}, r \in 0..1 :
       /\ Affordable(r + 1)
       /\ CallSaveLayer(paint, Pixels, FALSE, "kContainsContents", r, FALSE,
                        [flip |-> "ok", size_empty |-> FALSE])
  \/ \E flip \in SomeFlipOutcomes : CallRestore(flip)
  \/ \E count \in 0..MaxSaveCount, flips \in RestoreFlips :
       CallRestoreToCount(count, flips)
  \/ Affordable(1) /\ CallDraw(PlainEntity, [flip |-> "ok", pass_ok |-> TRUE])

SpecRestore == Init /\ [][NextRestore]_vars

\* SpecReplay: a recording with translations, scopes, save layers and draws
\* on a canvas of either kind; once the caller has closed every scope
\* it opened, the replay is ended.
NextReplay ==
  \/ CallSave(0)
  \/ \E paint \in {PlainPaint, ScreenPaint} :
       /\ Affordable(1)
       /\ CallSaveLayer(paint, Pixels, FALSE, "kContainsContents", 0, FALSE,
                        [flip |-> "ok", size_empty |-> FALSE])
  \/ \E flip \in SomeFlipOutcomes : CallRestore(flip)
  \/ Affordable(1) /\ CallDraw(PlainEntity, [flip |-> "ok", pass_ok |-> TRUE])
  \/ CallTranslate(1)
  \/ Len(caller_scopes) = 1 /\ CallEndReplay

SpecReplay == InitReadback /\ [][NextReplay]_vars

\* SpecMode: save layers, with and without a backdrop filter, under
\* translated and untranslated transforms.
NextMode ==
  \/ Affordable(1) /\ CallSave(1)
  \/ \E backdrop_filter \in BOOLEAN, bounds \in {Pixels, {}}, r \in 0..1 :
       \E flip \in (IF backdrop_filter THEN SomeFlipOutcomes ELSE {"ok"}) :
         /\ Affordable(r + 1)
         /\ CallSaveLayer(PlainPaint, bounds, backdrop_filter,
                          "kContainsContents", r, FALSE,
                          [flip |-> flip, size_empty |-> FALSE])
  \/ CallRestore("ok")
  \/ Affordable(1) /\ CallDraw(PlainEntity, [flip |-> "ok", pass_ok |-> TRUE])
  \/ CallTranslate(1)

SpecMode == Init /\ [][NextMode]_vars

\* SpecOpacity: a caller that records its scopes opens plain scopes and
\* save layers, opaque and translucent, with and without leave to distribute
\* the opacity, and draws in them; no flip is needed.
NextOpacity ==
  \/ \E r \in 0..MaxDepth : Affordable(r) /\ RecordedSave(r)
  \/ \E paint \in {PlainPaint, HalfPaint}, r \in 0..MaxDepth :
       \E can_distribute_opacity \in BOOLEAN :
         /\ Affordable(r + 1)
         /\ RecordedSaveLayer(paint, r, can_distribute_opacity)
  \/ RecordedRestore
  \/ Affordable(1) /\ RecordedDraw(PlainEntity)

SpecOpacity == Init /\ [][NextOpacity]_vars

\* The tracker alone: clips of every shape, and the cull test.
NextTracker ==
  \/ \E rect \in ClipRects, op \in ClipOperations, is_aa \in BOOLEAN :
       CallClipRect(rect, op, is_aa)
  \/ \E bounds \in ClipRects, op \in ClipOperations, is_aa \in BOOLEAN :
       CallClipOval(bounds, op, is_aa)
  \/ \E bounds \in ClipRects, op \in ClipOperations, is_aa \in BOOLEAN :
       \E radii \in RRectRadii(bounds) : CallClipRRect(RRectShape(bounds, radii), op, is_aa)
  \/ \E bounds \in ClipRects, op \in ClipOperations :
       \E is_rect \in BOOLEAN, inverse \in BOOLEAN :
         CallClipPath(PathShape(bounds, is_rect, inverse), op, FALSE)
  \/ \E content_bounds \in ClipRects : CallContentCulled(content_bounds)
  \/ TrackerReturns

SpecTracker == InitTracker /\ [][NextTracker]_vars

\* SpecReactor: the threads enqueue operations (null ones too) and react,
\* on a reactor of either validity.
NextReactor ==
  \/ \E t \in Threads, operation \in NextOperations : AddOperation(t, operation)
  \/ \E t \in Threads : CallReact(t)
  \/ \E t \in Threads : React(t)
  \/ \E t \in Threads : ReactWhile(t)
  \/ \E t \in Threads : ReactLock(t)
  \/ \E t \in Threads : ReactOnce(t)
  \/ \E t \in Threads : ConsolidateHandles(t)
  \/ \E t \in Threads : FlushOps(t)
  \/ \E t \in Threads : RunOperation(t)
  \/ \E t \in Threads : Returned(t)

SpecReactor == InitReactor /\ [][NextReactor]_vars

\* A qualifying thread calls React, or AddOperation with an operation.
QualifiedCall ==
  \E t \in Threads :
    /\ CanReactOnCurrentThread(t)
    /\ \/ CallReact(t)
       \/ \E operation \in NextOperations \ {0} : AddOperation(t, operation)

\* SpecReactorFair: a thread inside a call keeps running, and a qualifying
\* thread calls React or AddOperation again and again.
SpecReactorFair ==
  /\ SpecReactor
  /\ \A t \in Threads : WF_vars(ThreadStep(t))
  /\ SF_vars(QualifiedCall)

\* The handle types a caller passes to CreateHandle.
HandleTypes == {"kUnknown", "kTexture"}

\* SpecHandles: the threads also create handles and collect them, outside
\* of operations.
NextHandles ==
  \/ NextReactor
  \/ \E t \in Threads, type \in HandleTypes : CreateHandle(t, type)
  \/ \E t \in Threads, handle \in 1..MaxHandles : CollectHandle(t, handle)

SpecHandles == InitHandles /\ [][NextHandles]_vars

\* SpecNested: some operations enqueue a further operation when they run.
NextNested ==
  \/ NextReactor
  \/ \E t \in Threads : Relock(t)

SpecNested == InitNested /\ [][NextNested]_vars

\* SpecPass: commands of a render pass with any pipeline, buffers and
\* textures, bound in any number and order.
NextPass ==
  \/ \E pipeline \in BOOLEAN, uses_input_attachments \in BOOLEAN :
       SetPipeline(pipeline, uses_input_attachments)
  \/ \E buffer \in BOOLEAN, tracked \in BOOLEAN : BindResource_Buffer(buffer, tracked)
  \/ \E valid \in BOOLEAN, sampler \in BOOLEAN, tracked \in BOOLEAN :
       BindResource_Texture(valid, sampler, tracked)
  \/ \E encoded \in BOOLEAN : Draw(encoded)

SpecPass == Init /\ [][NextPass]_vars

\* SpecFilter: colours are filtered by filters of every kind, the composed
\* ones made of two simple filters.
SimpleColorFilters ==
  {BlendColorFilter(blend_mode, 1) : blend_mode \in {"kSource", "kPlus"}}
    \cup {MatrixColorFilter([scale |-> 1, offset |-> 1]),
          MatrixColorFilter([scale |-> 2, offset |-> 0])}
    \cup {SrgbToLinearColorFilter, LinearToSrgbColorFilter}

ColorFilters ==
  SimpleColorFilters \cup
    {ComposedColorFilter(outer, inner) :
       outer \in SimpleColorFilters, inner \in SimpleColorFilters}

NextFilter ==
  \E filter \in ColorFilters, color \in Colors : FilterColor(filter, color)

SpecFilter == Init /\ [][NextFilter]_vars

\* ================================================================= claims
RECURSIVE Increasing(_)
Increasing(q) ==
  IF Len(q) < 2 THEN TRUE
  ELSE q[1] < q[2] /\ Increasing(Tail(q))

Depths(q) == [i \in 1..Len(q) |-> q[i].depth]

\* The stack index of the innermost open subpass frame, 1 if there is none:
\* the owner of the render pass that scope draws into.
RECURSIVE InnermostSubpass(_)
InnermostSubpass(ts) ==
  IF Len(ts) <= 1 THEN 1
  ELSE IF Back(ts).rendering_mode \in SubpassModes THEN Len(ts)
  ELSE InnermostSubpass(PopBack(ts))

\* C1: a Save/SaveLayer ... Restore pair leaves GetSaveCount() where it was:
\* the Restore that closes a scope of the caller brings the save count back
\* to its value before the scope was opened.
C1_BalancedSaveCount ==
  [][\A flip \in SomeFlipOutcomes :
       (CallRestore(flip) /\ Len(caller_scopes) > 1)
         => Len(transform_stack_') = Back(caller_scopes).save_count]_vars

\* C2: the depths stamped on successive draw entities strictly increase in
\* call order and the depth counter never decreases.
C2_DepthIncreases ==
  [][/\ current_depth_' >= current_depth_
     /\ Increasing(<<last_draw_depth>> \o
                   Depths(SelectSeq(rendered', IsDrawEntity)))]_vars

\* C3: while the caller honours the reserved depth budget, the depth counter
\* is at most the clip_depth of the frame on top of the stack.
C3_DepthWithinClipDepth ==
  honoured => current_depth_ <= Back(transform_stack_).clip_depth

\* C4: the root frame holds the maximum depth and a frame's clip_depth is at
\* most the clip_depth of the frame below it.
C4_ClipDepthNests ==
  /\ transform_stack_[1].clip_depth = kMaxDepth
  /\ \A i \in 2..Len(transform_stack_) :
       transform_stack_[i].clip_depth <= transform_stack_[i - 1].clip_depth

\* C5: a clip entity carries the clip_depth of the frame it is applied in; a
\* draw entity has a depth at most the clip_depth of every open frame that
\* holds a clip and greater than the depth of every clip whose frame was
\* restored.
C5_ClipScoping ==
  \A i \in 1..Len(rendered) :
    LET e == rendered[i]
    IN  /\ e.kind = "clip" => e.depth = e.top_clip_depth
        /\ IsDrawEntity(e) => (e.depth <= e.ceiling /\ e.depth > e.floor)

\* C6: while the top frame is skipping, Save and SaveLayer push a skipping
\* frame and allocate nothing, draws and clips render nothing and leave the
\* depth counter, the render passes and the clip coverage alone, and Restore
\* only pops the frame after moving the depth counter to its clip_depth; under
\* the outermost skipping frame lies a frame that is not skipping.
PushedSkipFrame ==
  /\ Len(transform_stack_') = Len(transform_stack_) + 1
  /\ PopBack(transform_stack_') = transform_stack_
  /\ Back(transform_stack_').skipping
  /\ Back(transform_stack_').clip_depth >= current_depth_
  /\ render_passes_' = render_passes_
  /\ save_layer_state_' = save_layer_state_
  /\ clip_coverage_stack_' = clip_coverage_stack_
  /\ current_depth_' = current_depth_
  /\ rendered' = <<>>

RenderedNothing ==
  /\ rendered' = <<>>
  /\ current_depth_' = current_depth_
  /\ render_passes_' = render_passes_
  /\ save_layer_state_' = save_layer_state_
  /\ clip_coverage_stack_' = clip_coverage_stack_
  /\ Len(transform_stack_') = Len(transform_stack_)

PoppedSkipFrame ==
  /\ transform_stack_' = PopBack(transform_stack_)
  /\ current_depth_' = Back(transform_stack_).clip_depth
  /\ render_passes_' = render_passes_
  /\ save_layer_state_' = save_layer_state_
  /\ clip_coverage_stack_' = clip_coverage_stack_
  /\ rendered' = <<>>
  /\ (~transform_stack_[Len(transform_stack_) - 1].skipping
        => ~Back(transform_stack_').skipping)

C6_SkippingDoesNoWork ==
  [][IsSkipping(State) =>
       /\ \A r \in 0..MaxReserve : CallSave(r) => PushedSkipFrame
       /\ \A bounds \in {Pixels, {}}, r \in 0..MaxReserve :
            CallSaveLayer(PlainPaint, bounds, FALSE, "kMayClipContents", r,
                          FALSE, [flip |-> "ok", size_empty |-> FALSE])
              => PushedSkipFrame
       /\ CallDraw(PlainEntity, [flip |-> "ok", pass_ok |-> TRUE])
            => RenderedNothing
       /\ \A shape \in Shapes : CallClip(shape, "kIntersect") => RenderedNothing
       /\ CallRestore("ok") => PoppedSkipFrame]_vars

\* C6 witness: a scope was opened while the canvas was skipping.
C6_Witness ==
  /\ Len(transform_stack_) >= 3
  /\ Back(transform_stack_).skipping
  /\ transform_stack_[Len(transform_stack_) - 1].skipping
  /\ ~transform_stack_[Len(transform_stack_) - 2].skipping

\* C7: a SaveLayer with a backdrop filter whose flip fails still pushes a
\* frame, which is skipping, and keeps the size of the render-pass stack.
C7_FailedBackdropFlipSkips ==
  [][\A paint \in {PlainPaint, ScreenPaint}, bounds \in {Pixels, {}},
        r \in 0..MaxReserve, can_distribute_opacity \in BOOLEAN :
       CallSaveLayer(paint, bounds, TRUE, "kContainsContents", r,
                     can_distribute_opacity,
                     [flip |-> "no_texture", size_empty |-> FALSE])
         => /\ Len(transform_stack_') = Len(transform_stack_) + 1
            /\ Back(transform_stack_').skipping
            /\ Len(render_passes_') = Len(render_passes_)]_vars

\* C8: whether or not the flip for an advanced blend succeeds, Restore pops
\* the frame on top of the stack and leaves on top of the render-pass stack
\* the pass of the innermost open save layer.
C8_FailedBlendFlipKeepsOrder ==
  [][\A flip \in SomeFlipOutcomes :
       (CallRestore(flip) /\ Len(transform_stack_) > 1)
         => /\ transform_stack_' = PopBack(transform_stack_)
            /\ Len(render_passes_') > 0
            /\ Back(render_passes_').owner
                 = InnermostSubpass(transform_stack_')]_vars

\* C9: SaveLayer takes the opacity peephole, that is, pushes one direct frame
\* that is not skipping and allocates neither a render pass nor a save-layer
\* state, exactly when the canvas is not skipping, the coverage limit is not
\* empty, opacity may be distributed, there is no backdrop filter, the paint
\* varies only alpha and the bounds promise is not "may clip contents".
PeepholeEffect ==
  /\ Len(transform_stack_') = Len(transform_stack_) + 1
  /\ Back(transform_stack_').rendering_mode = "kDirect"
  /\ ~Back(transform_stack_').skipping
  /\ render_passes_' = render_passes_
  /\ save_layer_state_' = save_layer_state_

C9_OpacityPeephole ==
  [][last_save_layer' # <<>> =>
       LET call == last_save_layer'[1]
       IN  PeepholeEffect <=>
             /\ ~IsSkipping(State)
             /\ GetLocalCoverageLimit(State) # {}
             /\ call.can_distribute_opacity
             /\ ~call.backdrop_filter
             /\ call.paint.blend_mode = "kSourceOver"
             /\ ~call.paint.image_filter
             /\ ~call.paint.color_filter
             /\ call.bounds_promise = "kContainsContents"]_vars

\* C9 witness: a peephole layer is open: a direct frame carries a folded
\* alpha and no render pass was allocated.
C9_Witness ==
  /\ Len(transform_stack_) = 2
  /\ Back(transform_stack_).rendering_mode = "kDirect"
  /\ ~Back(transform_stack_).skipping
  /\ Back(transform_stack_).distributed_opacity = AlphaOne \div 2
  /\ Len(render_passes_) = 1
  /\ Len(save_layer_state_) = 0

\* C10: when SaveLayer allocates a subpass, the recorded alpha is the paint
\* alpha times the distributed opacity of the enclosing frame, that opacity
\* becomes 1, and the new frame starts with distributed opacity 1.
C10_SubpassAbsorbsOpacity ==
  [][(/\ last_save_layer' # <<>>
      /\ Len(render_passes_') = Len(render_passes_) + 1)
       => /\ Len(transform_stack_') = Len(transform_stack_) + 1
          /\ Len(save_layer_state_') = Len(save_layer_state_) + 1
          /\ Back(save_layer_state_').paint.alpha =
               MulAlpha(last_save_layer'[1].paint.alpha,
                        Back(transform_stack_).distributed_opacity)
          /\ transform_stack_'[Len(transform_stack_)].distributed_opacity
               = AlphaOne
          /\ Back(transform_stack_').distributed_opacity = AlphaOne]_vars

\* C10 witness: a subpass was allocated inside a peephole layer of alpha 1/2
\* for a paint of alpha 1/2: the recorded alpha is 1/4 and the enclosing
\* frame's opacity is consumed.
C10_Witness ==
  /\ Len(transform_stack_) = 3
  /\ Back(transform_stack_).rendering_mode \in SubpassModes
  /\ Len(save_layer_state_) = 1
  /\ Back(save_layer_state_).paint.alpha = AlphaOne \div 4
  /\ transform_stack_[2].rendering_mode = "kDirect"
  /\ transform_stack_[2].distributed_opacity = AlphaOne

\* C11: a SaveLayer whose local coverage limit (clip coverage, pass texture
\* bounds and root target bounds intersected), computed subpass coverage or
\* pixel size is empty pushes a skip frame and allocates no render pass; no
\* call made while the canvas is skipping touches the render-pass stack, the
\* Restore of the outermost skip frame ends the skipping, and a draw made
\* when the canvas is not skipping goes to the pass on top of that stack.
NothingToRender(call) ==
  LET coverage_limit ==
        (CurrentClipCoverage(State) \cap Back(render_passes_).bounds)
          \cap Pixels
      subpass_coverage ==
        ComputeSaveLayerCoverage(call.bounds, coverage_limit,
                                 IsBlendModeDestructive(call.paint.blend_mode),
                                 call.backdrop_filter)
  IN  \/ coverage_limit = {}
      \/ /\ ~TakesOpacityPeephole(call.paint, call.backdrop_filter,
                                  call.bounds_promise,
                                  call.can_distribute_opacity)
         /\ \/ subpass_coverage = {}
            \/ call.paint.image_filter /\ call.size_empty

C11_EmptyCoverageSkips ==
  [][/\ (last_save_layer' # <<>> /\ NothingToRender(last_save_layer'[1]))
          => PushedSkipFrame
     /\ IsSkipping(State) => render_passes_' = render_passes_
     /\ (/\ CallRestore("ok")
         /\ IsSkipping(State)
         /\ ~transform_stack_[Len(transform_stack_) - 1].skipping)
          => ~IsSkipping([ts |-> transform_stack_'])
     /\ \A i \in 1..Len(rendered') :
          rendered'[i].kind = "draw"
            => rendered'[i].pass = Back(render_passes_).owner]_vars

\* C11 witness: a layer was skipped because its bounds miss the clip
\* coverage, although that coverage is not empty.
C11_Witness ==
  /\ last_save_layer # <<>>
  /\ last_save_layer[1].bounds = {1}
  /\ ~last_save_layer[1].can_distribute_opacity
  /\ Back(transform_stack_).skipping
  /\ ~transform_stack_[Len(transform_stack_) - 1].skipping
  /\ CurrentClipCoverage(State) = {2}

\* ------------------------------------------------------------------ C12
\* C12: every non-clip draw that is rendered (not skipped, not folded into
\* the clear colour, not reusing depth) advances the depth counter by exactly
\* one and is stamped with the new value; an entity that reuses depth is
\* stamped with the depth of the entity before it and does not advance the
\* counter; the composite of a subpass is stamped with the counter after its
\* own advance.
C12_DrawAdvancesDepth ==
  [][/\ \A i \in DOMAIN rendered' :
          /\ rendered'[i].kind = "draw" =>
                rendered'[i].depth = current_depth_ + 1
          /\ rendered'[i].kind = "reuse" =>
                /\ i > 1
                /\ rendered'[i - 1].kind = "draw"
                /\ rendered'[i].depth = rendered'[i - 1].depth
          /\ rendered'[i].kind = "subpass" =>
                /\ rendered'[i].depth = current_depth_'
                /\ \A j \in 1..(i - 1) :
                      rendered'[j].kind \in {"draw", "reuse"} =>
                        rendered'[j].depth < rendered'[i].depth
     /\ \A entity \in DrawnEntities, flip \in SomeFlipOutcomes :
          (/\ CallDraw(entity, [flip |-> flip, pass_ok |-> TRUE])
           /\ \E i \in DOMAIN rendered' : rendered'[i].kind = "draw")
          => current_depth_' = current_depth_ + 1]_vars

\* A blurred rounded rectangle was drawn as two entities of one depth in a
\* plain scope: the counter advanced once.
C12_Witness ==
  /\ Len(rendered) = 2
  /\ rendered[1].kind = "draw"
  /\ rendered[2].kind = "reuse"
  /\ rendered[2].depth = rendered[1].depth
  /\ current_depth_ = rendered[1].depth

\* ------------------------------------------------------------------ C13
\* The pass at position k of the pass stack has been started.
Started(passes, k) == passes[k].active

\* C13: a solid colour covering the pass texture is folded into the clear
\* colour only while the pass has not been started; an entity, a clip
\* scissor or a backdrop encoded into a pass starts it, and a started pass
\* stays started; a folded draw submits nothing and leaves the depth counter
\* and the pass alone, an unfolded one is rendered; the pass of a
\* backdrop-filter save layer is started by its backdrop, so nothing drawn
\* in it is folded.
C13_FoldOnlyBeforeStart ==
  [][/\ \A i \in DOMAIN rendered', k \in DOMAIN render_passes_' :
          render_passes_'[k].owner = rendered'[i].pass
            => Started(render_passes_', k)
     /\ \A k \in DOMAIN render_passes_ \cap DOMAIN render_passes_' :
          (/\ render_passes_'[k].owner = render_passes_[k].owner
           /\ Started(render_passes_, k))
            => Started(render_passes_', k)
     /\ (CallClip({1}, "kIntersect") /\ ~IsSkipping(State))
          => Started(render_passes_', Len(render_passes_'))
     /\ \A flip \in SomeFlipOutcomes :
          (/\ CallDraw(BackgroundEntity, [flip |-> flip, pass_ok |-> TRUE])
           /\ ~IsSkipping(State))
            => IF Started(render_passes_, Len(render_passes_))
               THEN /\ \E i \in DOMAIN rendered' : rendered'[i].kind = "draw"
                    /\ current_depth_' = current_depth_ + 1
               ELSE /\ rendered' = <<>>
                    /\ current_depth_' = current_depth_
                    /\ render_passes_' = render_passes_
     /\ (/\ last_save_layer' # <<>>
         /\ last_save_layer'[1].backdrop_filter
         /\ Len(render_passes_') > Len(render_passes_))
          => /\ Started(render_passes_', Len(render_passes_'))
             /\ rendered' # <<>>
             /\ Back(rendered').kind = "backdrop"
             /\ Back(rendered').pass = Back(render_passes_').owner]_vars

\* C13 witness: a covering solid colour was just drawn into the started pass
\* of a backdrop-filter save layer and was rendered there, not folded.
C13_Witness ==
  /\ Len(render_passes_) = 2
  /\ Len(save_layer_state_) = 1
  /\ rendered # <<>>
  /\ Back(rendered).kind = "draw"
  /\ Back(rendered).blend = "kSource"
  /\ Back(rendered).pass = Back(render_passes_).owner
  /\ Back(transform_stack_).rendering_mode \in SubpassModes
  /\ current_depth_ = 1

\* ------------------------------------------------------------------ C14
\* The entries i+1 .. i+Len(replays) of the log are the replays of the
\* recorded clips, in recorded order, each under its own coverage.
ReplaysFollow(log, i, replays) ==
  /\ Len(log) >= i + Len(replays)
  /\ \A k \in 1..Len(replays) :
       /\ log[i + k].kind = "clip_replay"
       /\ log[i + k].depth = replays[k].depth
       /\ log[i + k].scissor = replays[k].coverage
       /\ log[i + k].pass = log[i].pass
  /\ \A j \in (i + 1)..Len(log) :
       log[j].kind = "clip_replay" => j <= i + Len(replays)

\* C14: after a successful flip the restarted pass first receives the
\* captured backdrop, then every clip of the replay list in recorded order,
\* each under the scissor of its own recorded coverage, and only then any
\* other content.
C14_FlipReplaysClipsInOrder ==
  [][\A i \in DOMAIN rendered' :
       /\ rendered'[i].kind = "msaa_backdrop" =>
            /\ \A j \in 1..(i - 1) : rendered'[j].pass # rendered'[i].pass
            /\ ReplaysFollow(rendered', i,
                             Back(clip_coverage_stack_).rendered_clip_entities)
       /\ rendered'[i].kind = "clip_replay" =>
            \E j \in 1..(i - 1) : rendered'[j].kind = "msaa_backdrop"]_vars

\* C14 witness: a backdrop-filter save layer flipped a pass that held a
\* difference clip and an intersect clip of smaller coverage; both were
\* replayed after the backdrop, each under its own scissor.
C14_Witness ==
  /\ Len(rendered) >= 3
  /\ rendered[1].kind = "msaa_backdrop"
  /\ rendered[2].kind = "clip_replay"
  /\ rendered[2].scissor = Pixels
  /\ rendered[3].kind = "clip_replay"
  /\ rendered[3].scissor = {1}
  /\ Back(rendered).kind = "backdrop"

\* ------------------------------------------------------------------ C15
\* A clip entity was rendered in the frame on top of the stack: the clip
\* stack holds a rendered clip above the clip height of the enclosing frame.
ClipAppliedInFrame ==
  /\ ~Back(transform_stack_).skipping
  /\ \E i \in DOMAIN Back(clip_coverage_stack_).rendered_clip_entities :
       Back(clip_coverage_stack_).rendered_clip_entities[i].clip_height
         > transform_stack_[Len(transform_stack_) - 1].clip_height

\* The coverage recorded at the given clip height.
CoverageAtHeight(height) ==
  LET layers == Back(clip_coverage_stack_).clip_coverage
  IN  {layers[i].coverage : i \in {j \in DOMAIN layers : layers[j].clip_height = height}}

EmitsClipRestore == \E i \in DOMAIN rendered' : rendered'[i].kind = "clip_restore"

Rewritten(log, kind) ==
  \A i \in DOMAIN log :
    log[i].kind = kind =>
      /\ log[i].blend = "kSource"
      /\ supports_framebuffer_fetch <=>
           ~\E j \in 1..(i - 1) :
               /\ log[j].kind = "msaa_backdrop"
               /\ log[j].pass = log[i].pass

\* C16: no entity is submitted with a blend mode outside the pipeline set;
\* a draw and a save-layer composite with an advanced blend mode are
\* rewritten through framebuffer fetch or through a flip of their pass and
\* rendered with blend mode Source.
C16_OnlyPipelineBlends ==
  [][/\ \A i \in DOMAIN rendered' :
          rendered'[i].blend \in PipelineBlendModes
     /\ \A flip \in SomeFlipOutcomes :
          /\ CallDraw(ScreenEntity, [flip |-> flip, pass_ok |-> TRUE])
               => Rewritten(rendered', "draw")
          /\ (/\ CallRestore(flip)
              /\ save_layer_state_ # <<>>
              /\ IsAdvancedBlend(Back(save_layer_state_).paint.blend_mode))
               => Rewritten(rendered', "subpass")]_vars

\* C16 witness: without framebuffer fetch the composite of a save layer
\* with an advanced blend mode was rendered with Source after a flip.
C16_Witness ==
  /\ ~supports_framebuffer_fetch
  /\ Len(rendered) >= 2
  /\ rendered[1].kind = "msaa_backdrop"
  /\ Back(rendered).kind = "subpass"
  /\ Back(rendered).blend = "kSource"
  /\ Back(rendered).pass = rendered[1].pass

\* ------------------------------------------------------------------ C17
\* Canvas::GetGlobalPassPosition: the origin of the innermost save layer,
\* none when no save-layer state is left.
HasGlobalPassOffset == save_layer_state_ # <<>>

\* C17: after EndReplay GetSaveCount() is 1, the depth counter is 0, the
\* single root frame has the maximum clip_depth, the identity transform and
\* is not skipping, and no save-layer state, hence no global pass offset,
\* of the finished recording is left.
C17_EndReplayReinitializes ==
  [][CallEndReplay =>
       /\ GetSaveCount([ts |-> transform_stack_']) = 1
       /\ current_depth_' = 0
       /\ transform_stack_'[1].clip_depth = kMaxDepth
       /\ transform_stack_'[1].transform = 0
       /\ ~transform_stack_'[1].skipping
       /\ transform_stack_'[1] = [CanvasStackEntry EXCEPT !.clip_depth = kMaxDepth]
       /\ save_layer_state_' = <<>>
       /\ ~HasGlobalPassOffset']_vars

\* C17 witness: the replay has ended (no render pass is left) after a
\* recording that drew into a save layer and translated the root frame.
C17_Witness ==
  /\ render_passes_ = <<>>
  /\ Len(transform_stack_) = 1
  /\ current_depth_ = 0
  /\ last_draw_depth = 2
  /\ rendered # <<>>
  /\ rendered[1].kind = "end_pass"

\* ------------------------------------------------------------------ C18
\* C18: EndReplay always constructs and ends the root render pass, also
\* when nothing was rendered into it; it blits the offscreen root target to
\* the real target if and only if the canvas requires readback, and only
\* after the root pass has ended.
C18_EndReplayEndsRootPass ==
  [][CallEndReplay =>
       /\ Len(rendered') >= 1
       /\ rendered'[1].kind = "end_pass"
       /\ rendered'[1].pass = Back(render_passes_).owner
       /\ (\E i \in DOMAIN rendered' : rendered'[i].kind = "blit")
            <=> requires_readback_
       /\ \A i \in DOMAIN rendered' :
            rendered'[i].kind = "blit" =>
              /\ i > 1
              /\ rendered'[i].pass = rendered'[1].pass]_vars

\* C18 witness: the replay of an empty recording has ended on a canvas that
\* requires readback: the root pass was ended, then blitted.
C18_Witness ==
  /\ requires_readback_
  /\ render_passes_ = <<>>
  /\ last_draw_depth = 0
  /\ Len(rendered) = 2
  /\ rendered[1].kind = "end_pass"
  /\ rendered[2].kind = "blit"

\* ------------------------------------------------------------------ C19
\* Thread t is about to return from AddOperation of a non-null operation.
AddOperationReturns(t) ==
  /\ At(t, "done")
  /\ threads[t].call = "AddOperation"
  /\ threads[t].op # 0

\* The operation was taken from the queue by a flush that is running.
InFlight(op) == \E u \in Threads : op \in Range(threads[u].ops)

WasExecuted(op) == op \in Range(executed)

\* C19, as stated: AddOperation enqueues and returns true for every
\* non-null operation, whatever the thread and the outcome of the flush;
\* when the calling thread qualifies, the operation has been executed
\* before AddOperation returns.
C19_AddOperationExecutes ==
  \A t \in Threads :
    AddOperationReturns(t) =>
      /\ threads[t].result
      /\ threads[t].op \in Enqueued
      /\ CanReactOnCurrentThread(t) => WasExecuted(threads[t].op)

\* C19, amended: AddOperation enqueues and returns true for every non-null
\* operation (and false, enqueuing nothing, for a null one); when the
\* calling thread qualifies and the reactor is valid, the operation has
\* left the queue before AddOperation returns: it has been executed, or a
\* flush running on another thread has taken it; on an invalid reactor it
\* is still queued.
C19_AddOperationFlushes ==
  \A t \in Threads :
    /\ (At(t, "done") /\ threads[t].call = "AddOperation" /\ threads[t].op = 0)
         => ~threads[t].result
    /\ AddOperationReturns(t) =>
         /\ threads[t].result
         /\ threads[t].op \in Enqueued
         /\ (CanReactOnCurrentThread(t) /\ is_valid_) =>
              (WasExecuted(threads[t].op) \/ InFlight(threads[t].op))
         /\ ~is_valid_ => threads[t].op \in Range(ops_)

\* C19 witness: a qualifying thread returns from AddOperation on a valid
\* reactor and its operation has been executed.
C19_Witness ==
  \E t \in Threads :
    /\ AddOperationReturns(t)
    /\ CanReactOnCurrentThread(t)
    /\ is_valid_
    /\ WasExecuted(threads[t].op)

\* ------------------------------------------------------------------ C20
\* React on a thread that cannot react returns false and runs nothing.
C20_ReactRefused ==
  \A t \in Threads :
    (React(t) /\ ~CanReactOnCurrentThread(t)) =>
      /\ executed' = executed
      /\ ops_' = ops_
      /\ threads'[t].pc = "done"
      /\ threads[t].call = "React" => ~threads'[t].result

\* An operation leaves the queue, and is executed, only in the flush of a
\* thread that can react.
C20_OnlyQualifyingFlush ==
  /\ \A op \in Range(ops_) \ Range(ops_') :
       \E t \in Threads : CanReactOnCurrentThread(t) /\ FlushOps(t)
  /\ executed' # executed =>
       \E t \in Threads : CanReactOnCurrentThread(t) /\ RunOperation(t)

ClipCalls == {"clipRect", "clipOval", "clipRRect", "clipPath"}

\* A clip call has just returned.
ClipReturned == tracker_call.pc = "returned" /\ tracker_call.fn \in ClipCalls

\* Every point of rectangle inner is a point of rectangle outer.
Within(inner, outer) ==
  \/ inner.l >= inner.r \/ inner.t >= inner.b
  \/ /\ outer.l <= inner.l /\ inner.r <= outer.r
     /\ outer.t <= inner.t /\ inner.b <= outer.b

\* C21: after any clipRect, clipOval, clipRRect or clipPath call the cull
\* rect is a subset of the cull rect before the call, so nested clips never
\* grow the coverage.
C21_ClipsShrinkCoverage == ClipReturned => Within(cull_rect_, tracker_call.before)

\* C21 witness: an intersect clip under a transform has returned and left a
\* non-empty cull rect that is smaller than the one before the call.
C21_Witness ==
  /\ ClipReturned
  /\ tracker_call.op = "kIntersect"
  /\ matrix_ # Identity
  /\ cull_rect_ # tracker_call.before
  /\ cull_rect_.l < cull_rect_.r /\ cull_rect_.t < cull_rect_.b


\* ------------------------------------------------------------------- C22
\* The corners of a rectangle in the local coordinates of matrix m.
LocalCorners(rect, m) ==
  {InvertAndTransform(m, x, y) : x \in {rect.l, rect.r}, y \in {rect.t, rect.b}}

\* Point p lies strictly inside the ellipse whose centre and radii are
\* given doubled.
InsideEllipse(p, cx2, cy2, rx2, ry2) ==
  LET dx == 2 * p.x - cx2 * p.w
      dy == 2 * p.y - cy2 * p.w
  IN  dx * dx * ry2 * ry2 + dy * dy * rx2 * rx2 < p.w * p.w * rx2 * rx2 * ry2 * ry2

\* Point p lies in the interior of the rectangle.
InsideRect(p, rect) ==
  /\ rect.l * p.w < p.x /\ p.x < rect.r * p.w
  /\ rect.t * p.w < p.y /\ p.y < rect.b * p.w

\* Point p lies in the interior of the round rect: inside the bounds and,
\* within the box of a rounded corner, inside the ellipse of that corner.
InsideRRect(p, rrect) ==
  LET bounds == rrect.bounds
      radii == rrect.radii
      corner(i, left, top) ==
        LET rx == radii[i].x
            ry == radii[i].y
            cx == IF left THEN bounds.l + rx ELSE bounds.r - rx
            cy == IF top THEN bounds.t + ry ELSE bounds.b - ry
            in_box == /\ IF left THEN p.x < cx * p.w ELSE p.x > cx * p.w
                      /\ IF top THEN p.y < cy * p.w ELSE p.y > cy * p.w
        IN  (rx > 0 /\ ry > 0 /\ in_box) => InsideEllipse(p, 2 * cx, 2 * cy, 2 * rx, 2 * ry)
  IN  /\ InsideRect(p, bounds)
      /\ corner(1, TRUE, TRUE) /\ corner(2, FALSE, TRUE)
      /\ corner(3, FALSE, FALSE) /\ corner(4, TRUE, FALSE)

\* The interior of the shape, mapped through m, contains all of rect.
InteriorContains(shape, rect, m) ==
  \A p \in LocalCorners(rect, m) :
    CASE shape.kind = "rect" -> InsideRect(p, shape.bounds)
      [] shape.kind = "oval" ->
           InsideEllipse(p, shape.bounds.l + shape.bounds.r, shape.bounds.t + shape.bounds.b,
                         shape.bounds.r - shape.bounds.l, shape.bounds.b - shape.bounds.t)
      [] shape.kind = "rrect" -> InsideRRect(p, shape)
      [] OTHER -> FALSE


\* A difference clip with a rectangle, an oval or a round rect has returned,
\* the transform is invertible and has no perspective, and the interior of
\* the shape contained all of the coverage the call started from.
CoveringDifferenceReturned ==
  /\ tracker_call.pc = "returned"
  /\ tracker_call.fn \in {"clipRect", "clipOval", "clipRRect"}
  /\ tracker_call.op = "kDifference"
  /\ GetDeterminant(matrix_) # 0
  /\ matrix_.px = 0 /\ matrix_.py = 0 /\ matrix_.w = 1
  /\ InteriorContains(tracker_call.shape, tracker_call.before, matrix_)

NoCoverage == cull_rect_.l >= cull_rect_.r \/ cull_rect_.t >= cull_rect_.b

\* C22: a difference clip with a rectangle, oval or round rect whose
\* interior contains all of the current coverage makes the coverage empty,
\* whatever the invertible non-perspective transform.
C22_CoveringDifferenceEmpties == CoveringDifferenceReturned => NoCoverage

\* The transform maps rectangles to rectangles.
RectToRect == (matrix_.b = 0 /\ matrix_.c = 0) \/ (matrix_.a = 0 /\ matrix_.d = 0)

\* The shape of the call is an oval, or a round rect whose four corners
\* have the same non-zero radii.
OvalOrSimpleRRect ==
  \/ tracker_call.fn = "clipOval"
  \/ /\ tracker_call.fn = "clipRRect"
     /\ \A i \in 1..4 : /\ tracker_call.shape.radii[i] = tracker_call.shape.radii[1]
                        /\ tracker_call.shape.radii[i].x > 0
                        /\ tracker_call.shape.radii[i].y > 0

\* The shape of the call is a rectangle, or a round rect without radii.
PlainRect ==
  \/ tracker_call.fn = "clipRect"
  \/ /\ tracker_call.fn = "clipRRect"
     /\ \A i \in 1..4 : tracker_call.shape.radii[i] = Radius(0, 0)

\* C22 as amended: the covering difference clip empties the coverage when
\* the shape is an oval or a round rect with one radius pair for all
\* corners, and when it is a rectangle under a transform that maps
\* rectangles to rectangles (with anti-aliasing: whose mapped bounds, rounded
\* to whole pixels, still contain the coverage).
C22_CoveringOvalOrAlignedRectEmpties ==
  (/\ CoveringDifferenceReturned
   /\ \/ OvalOrSimpleRRect
      \/ /\ PlainRect
         /\ RectToRect
         /\ tracker_call.is_aa =>
              Within(tracker_call.before, Round(TransformAndClipBounds(tracker_call.shape.bounds, matrix_))))
    => NoCoverage

\* C22 witness: a difference clip with an oval under the shear has emptied
\* a coverage that was not empty.
C22_Witness ==
  /\ CoveringDifferenceReturned
  /\ tracker_call.fn = "clipOval"
  /\ matrix_ = Shear
  /\ ~IsEmpty(tracker_call.before)
  /\ NoCoverage


\* ------------------------------------------------------------------- C23
\* The coverage the call started from was empty.
StartedEmpty ==
  tracker_call.before.l >= tracker_call.before.r \/ tracker_call.before.t >= tracker_call.before.b

\* The current transform has perspective.
UnderPerspective == matrix_.px # 0 \/ matrix_.py # 0 \/ matrix_.w # 1

NonInvertedPath == [tracker_call.shape EXCEPT !.inverse = FALSE]

ComplementaryOp == IF tracker_call.op = "kIntersect" THEN "kDifference" ELSE "kIntersect"

\* C24: clipPath with an inverse-fill path has the same effect as clipping
\* the non-inverted path with the complementary operation (intersect for
\* difference, difference for intersect).
C24_InversePathClipsComplement ==
  (tracker_call.pc = "returned" /\ tracker_call.fn = "clipPath" /\ tracker_call.shape.inverse) =>
    cull_rect_ = clipPath(tracker_call.before, matrix_, NonInvertedPath, ComplementaryOp, tracker_call.is_aa)

\* C24 witness: an intersect clip with an inverse-fill rectangular path has
\* cut a part out of the coverage, as a difference clip does, and a part of
\* the coverage that lies outside of the path's bounds is left.
C24_Witness ==
  /\ tracker_call.pc = "returned" /\ tracker_call.fn = "clipPath"
  /\ tracker_call.shape.inverse /\ tracker_call.shape.is_rect
  /\ tracker_call.op = "kIntersect"
  /\ matrix_ = Identity
  /\ cull_rect_ # tracker_call.before
  /\ ~NoCoverage
  /\ ~Within(cull_rect_, tracker_call.shape.bounds)


\* ------------------------------------------------------------------- C25
\* The operation the call is processed as: for a path of inverse fill type
\* the complementary one (C24).
ProcessedAs ==
  IF tracker_call.fn = "clipPath" /\ tracker_call.shape.inverse THEN ComplementaryOp
  ELSE tracker_call.op

DifferenceReturned == ClipReturned /\ ProcessedAs = "kDifference"

\* The shape of the call is a rectangle in local coordinates or, for a
\* round rect, is cut by rectangles within its bounds.
CutsByRectangles ==
  \/ tracker_call.fn \in {"clipRect", "clipRRect"}
  \/ tracker_call.fn = "clipPath" /\ tracker_call.shape.is_rect

\* C25: a difference clip changes the tracked coverage only through a
\* transform-aligned rectangular cutout or the full-cover removal: when the
\* transform does not map rectangles to rectangles, or the shape is a
\* non-rectangular path or an oval that does not cover the coverage, the
\* coverage is left unchanged.
C25_DifferenceOnlyCutsAligned ==
  DifferenceReturned =>
    /\ cull_rect_ # tracker_call.before =>
         \/ /\ RectToRect /\ ~UnderPerspective
            /\ CutsByRectangles
            /\ Within(cull_rect_, tracker_call.before)
         \/ /\ NoCoverage
            /\ tracker_call.fn \in {"clipOval", "clipRRect"}
            /\ ~PlainRect
            /\ GetDeterminant(matrix_) # 0
    /\ (/\ tracker_call.fn = "clipOval"
        /\ ~InteriorContains(tracker_call.shape, tracker_call.before, matrix_)) =>
         cull_rect_ = tracker_call.before

\* C25 witness: under the shear a difference clip with a rectangle that
\* contains all of the coverage has left the coverage, which is not empty,
\* unchanged.
C25_Witness ==
  /\ DifferenceReturned
  /\ tracker_call.fn = "clipRect"
  /\ matrix_ = Shear
  /\ InteriorContains(tracker_call.shape, tracker_call.before, matrix_)
  /\ ~NoCoverage
  /\ cull_rect_ = tracker_call.before


\* ------------------------------------------------------------------- C28
\* content_culled has just returned.
CullTestReturned == tracker_call.pc = "returned" /\ tracker_call.fn = "content_culled"

\* The content bounds passed to the call are not empty.
SomeContent ==
  tracker_call.shape.bounds.l < tracker_call.shape.bounds.r /\ tracker_call.shape.bounds.t < tracker_call.shape.bounds.b

\* C28: for a non-empty cull rect, non-empty content bounds and an
\* invertible transform with perspective, content_culled returns false.
C28_PerspectiveNeverCulls ==
  (/\ CullTestReturned
   /\ UnderPerspective
   /\ GetDeterminant(matrix_) # 0
   /\ ~NoCoverage
   /\ SomeContent) => ~tracker_call.result

\* C28 witness: under perspective content_culled has returned false for
\* content bounds whose image under the matrix without its perspective row
\* misses the cull rect.
C28_Witness ==
  /\ CullTestReturned /\ UnderPerspective /\ GetDeterminant(matrix_) # 0
  /\ ~NoCoverage /\ SomeContent
  /\ ~IntersectsWithRect(TransformAndClipBounds(tracker_call.shape.bounds, matrix_), cull_rect_)
  /\ ~tracker_call.result

\* ------------------------------------------------------------------ C26
\* The last call was a draw of a rect, points or an image.
ShapeDrawn == last_draw' # <<>>

\* The arguments the claim calls degenerate.
Degenerate(call) ==
  \/ call.fn = "DrawRect" /\ IsEmpty(call.rect)
  \/ call.fn = "DrawPoints" /\ (call.points = 0 \/ call.radius <= 0)
  \/ call.fn = "DrawImage" /\ (call.image.null \/ SizeIsEmpty(call.image))
  \/ /\ call.fn = "DrawImageRect"
     /\ \/ call.image.null
        \/ SizeIsEmpty(call.image)
        \/ IsEmpty(call.source)
        \/ IsEmpty(call.dest)

\* The arguments the draw handlers return on.
ShortCircuited(call) ==
  \/ call.fn = "DrawPoints" /\ call.radius <= 0
  \/ call.fn = "DrawImage" /\ (call.image.null \/ SizeIsEmpty(call.image))
  \/ /\ call.fn = "DrawImageRect"
     /\ \/ call.image.null
        \/ SizeIsEmpty(call.image)
        \/ IsEmpty(call.source)
        \/ IsEmpty(call.dest)

SilentNoOp ==
  /\ rendered' = <<>>
  /\ UNCHANGED <<current_depth_, transform_stack_, render_passes_>>

\* C26, as stated: a draw call with degenerate input (a null image, an empty
\* source or destination rectangle, an image of empty size, a zero-area
\* rect, an empty point set or a non-positive point radius) submits no
\* entity and leaves the depth counter, the frame stack and the render-pass
\* stack unchanged.
C26_DegenerateDrawIsNoOp ==
  [][(ShapeDrawn /\ Degenerate(last_draw'[1])) => SilentNoOp]_vars

\* C26, amended: a draw call with a null image, an empty source or
\* destination rectangle, an image of empty size or a non-positive point
\* radius submits no entity and leaves the depth counter, the frame stack
\* and the render-pass stack unchanged.
C26_ShortCircuitedDrawIsNoOp ==
  [][(ShapeDrawn /\ ShortCircuited(last_draw'[1])) => SilentNoOp]_vars

\* An image draw with an empty source rectangle has returned inside a save
\* layer after an earlier draw had advanced the depth counter.
C26_Witness ==
  /\ last_draw # <<>>
  /\ last_draw[1].fn = "DrawImageRect"
  /\ ~last_draw[1].image.null
  /\ ~SizeIsEmpty(last_draw[1].image)
  /\ IsEmpty(last_draw[1].source)
  /\ current_depth_ > 0
  /\ save_layer_state_ # <<>>
  /\ rendered = <<>>

\* ------------------------------------------------------------------ C27
\* The step is a SaveLayer call that pushed a subpass frame.
PushedSubpassFrame ==
  /\ last_save_layer' # <<>>
  /\ Len(transform_stack_') = Len(transform_stack_) + 1
  /\ Back(transform_stack_').rendering_mode \in SubpassModes

\* The transform current at the call has a translation component.
TranslatedAtCall == Back(transform_stack_).transform # 0

ModeByTranslation ==
  IF TranslatedAtCall THEN "kSubpassPrependSnapshotTransform"
  ELSE "kSubpassAppendSnapshotTransform"

\* C27, as stated: the frame pushed by a subpass SaveLayer has rendering
\* mode subpass-prepend when the transform current at the SaveLayer call has
\* a translation component and subpass-append otherwise.
C27_FrameModeFollowsTranslation ==
  [][PushedSubpassFrame
       => Back(transform_stack_').rendering_mode = ModeByTranslation]_vars

\* C27, amended: the frame pushed by a subpass SaveLayer always has
\* rendering mode subpass-append; it is the backdrop filter contents of the
\* SaveLayer, when it has a backdrop filter, that get subpass-prepend when
\* the transform current at the call has a translation component and
\* subpass-append otherwise.
C27_FrameAppendsBackdropFollowsTranslation ==
  [][PushedSubpassFrame
       => /\ Back(transform_stack_').rendering_mode
               = "kSubpassAppendSnapshotTransform"
          /\ last_save_layer'[1].backdrop_filter
               => /\ rendered' # <<>>
                  /\ Back(rendered').kind = "backdrop"
                  /\ Back(rendered').rendering_mode = ModeByTranslation]_vars

\* A SaveLayer with a backdrop filter has pushed a subpass frame under a
\* translated transform, and its backdrop was rendered.
C27_Witness ==
  /\ last_save_layer # <<>>
  /\ last_save_layer[1].backdrop_filter
  /\ Back(transform_stack_).rendering_mode \in SubpassModes
  /\ Back(transform_stack_).transform # 0
  /\ rendered # <<>>
  /\ Back(rendered).kind = "backdrop"
  /\ Len(save_layer_state_) = Len(render_passes_) - 1

\* ------------------------------------------------------------------ C29
\* The open subpass (SaveLayer) frames of the frame stack.
SubpassFrames ==
  {i \in DOMAIN transform_stack_ :
     transform_stack_[i].rendering_mode \in SubpassModes}

\* C29: in every reachable state the number of render passes on the pass
\* stack is one plus the number of open subpass frames on the frame stack,
\* which is one plus the number of recorded save-layer states, on the paths
\* where a backdrop flip fails too.
C29_PassesMatchSubpassFrames ==
  /\ Len(render_passes_) = 1 + Cardinality(SubpassFrames)
  /\ Len(render_passes_) = 1 + Len(save_layer_state_)

\* ------------------------------------------------------------------ C30
\* The product of the alphas of the opacity-peephole layers open above the
\* nearest enclosing subpass frame.
RECURSIVE PeepholeAlphas(_)
PeepholeAlphas(layers) ==
  IF layers = <<>> THEN AlphaOne
  ELSE IF Back(layers).kind = "subpass" THEN AlphaOne
  ELSE IF Back(layers).kind = "peephole"
  THEN (PeepholeAlphas(PopBack(layers)) * Back(layers).alpha) \div AlphaOne
  ELSE PeepholeAlphas(PopBack(layers))

\* C30: the inherited opacity applied to a rendered draw is the product of
\* the alphas of exactly those opacity-peephole save layers that are open
\* around the draw above the nearest enclosing subpass frame; so a draw
\* issued after a peephole layer's Restore does not carry its alpha, and a
\* draw that follows a nested subpass SaveLayer/Restore pair inside a
\* peephole layer still carries that layer's alpha.
C30_DrawInheritsOpenPeepholeAlphas ==
  \A i \in DOMAIN rendered :
    rendered[i].kind = "draw"
      => rendered[i].opacity = PeepholeAlphas(open_layers)

\* ------------------------------------------------------------------- C31
\* C31: whenever an operation runs, every handle that was live (created and
\* not collected) when the operation was enqueued, and has not been
\* collected since, resolves to a GL name inside the operation, whichever
\* thread created it and however CreateHandle and AddOperation on one
\* thread interleave with React on another.
C31_LiveHandlesResolveInOperations == unresolved = {}

\* ------------------------------------------------------------------- C32
\* The operations a running flush has swapped out and not run yet.
Swapped ==
  IF ops_execution_mutex_ \in Threads THEN threads[ops_execution_mutex_].ops
  ELSE <<>>

\* C32: operations are numbered in the order of their enqueueing; the
\* executed ones were executed in that order, each once, and followed by
\* those a flush has swapped out and those still queued they are exactly
\* the operations enqueued, in order: none is lost, run twice or overtaken,
\* however the threads enqueue and react.
C32_ExecutedInEnqueueOrderOnce ==
  /\ Increasing(executed)
  /\ \A t \in Threads : threads[t].ops # <<>> => ops_execution_mutex_ = t
  /\ executed \o Swapped \o ops_ = [i \in 1..Cardinality(Enqueued) |-> i]

\* C32 witness: both threads can react, both are inside React, and two
\* operations have been executed.
C32_Witness ==
  /\ can_react = Threads
  /\ \A t \in Threads : threads[t].pc \notin {"idle", "done"}
  /\ Len(executed) >= 2

\* ------------------------------------------------------------------- C33
\* Thread t is inside ReactOnce: it consolidates handles, swaps the queue
\* or executes operations.
Reacting(t) ==
  \/ threads[t].pc \in {"ReactOnce", "ConsolidateHandles", "FlushOps", "op"}
  \/ threads[t].stack # <<>>

\* C33: at most one thread consolidates handles or executes operations at
\* any time, and it holds the execution lock: React calls of different
\* qualifying threads are serialized.
C33_OneThreadReacts ==
  \A t \in Threads :
    Reacting(t) =>
      /\ ops_execution_mutex_ = t
      /\ \A u \in Threads \ {t} : ~Reacting(u)

\* C33 witness: a thread is about to execute an operation while the other
\* qualifying thread waits for the execution lock.
C33_Witness ==
  \E t \in Threads, u \in Threads :
    /\ t # u
    /\ At(t, "op")
    /\ threads[t].ops # <<>>
    /\ At(u, "lock")
    /\ CanReactOnCurrentThread(u)

\* ------------------------------------------------------------------- C34
\* Thread t is inside an AddOperation called by an operation of its flush.
InNestedAddOperation(t) == threads[t].stack # <<>>

\* C34: an operation may enqueue a further operation while it runs: the
\* AddOperation it calls does not block forever, that is, its thread never
\* waits for a lock the thread holds itself, and it returns into the
\* operation, so that the flush goes on and executes the new operation
\* before the outermost React returns.
C34_NestedAddOperationReturns ==
  \A t \in Threads :
    InNestedAddOperation(t) =>
      /\ ~(At(t, "lock") /\ ops_execution_mutex_ = t)
      /\ threads[t].pc \notin {"deadlock", "abort"}

\* ------------------------------------------------------------------- C35
\* CollectHandle has marked handle h.
Collected(h) == h \in DOMAIN collected_handles

\* A collected handle resolves to no GL name; while it is in the table it
\* is pending collection and its GL object, if any, not deleted yet; once
\* out of the table its GL object, if one was ever created, has been deleted
\* exactly once; one that had no GL name when it was collected (created on
\* a thread that could not react, no reaction since) never gets an object.
C35_CollectedHandle ==
  \A h \in DOMAIN collected_handles :
    /\ GetGLHandle(h) = nullopt
    /\ gl_objects[h].created <= 1
    /\ IF h \in DOMAIN handles_
       THEN handles_[h].pending_collection /\ gl_objects[h].deleted = 0
       ELSE gl_objects[h].deleted = gl_objects[h].created
    /\ ~collected_handles[h] => gl_objects[h].created = 0

\* The reaction that follows CollectHandle(h), a pass of ReactOnce on a
\* valid reactor, deletes the GL object of h and removes its entry.
C35_NextReactionCollects ==
  \A t \in Threads :
    ConsolidateHandles(t) =>
      \A h \in DOMAIN collected_handles \cap DOMAIN handles_ :
        /\ h \notin DOMAIN handles_'
        /\ gl_objects'[h].deleted = gl_objects[h].created

MatchedRestore ==
  /\ Len(caller_scopes) > 1
  /\ \E flip \in FlipOutcomes : CallRestore(flip)

\* C36: after the Restore that matches a Save or SaveLayer, the current
\* transform and the clip height are what they were immediately before that
\* Save or SaveLayer, whatever was concatenated and clipped in the scope.
C36_RestoreRestoresTransformAndClipHeight ==
  [][MatchedRestore =>
       /\ Back(transform_stack_').transform = Back(caller_scopes).transform
       /\ Back(transform_stack_').clip_height = Back(caller_scopes).clip_height]_vars

\* ------------------------------------------------------------------- C37
\* The call drew the composite of a save layer.
CompositeDrawn(log) == Len(log) > 0 /\ Back(log).kind = "subpass"

\* C37: the transform with which Restore builds and filters the composite of
\* a save layer is the transform that was current when SaveLayer was
\* called, whatever was concatenated inside the layer before its Restore.
C37_CompositeUsesSaveLayerTransform ==
  [][(MatchedRestore /\ CompositeDrawn(rendered')) =>
       Back(rendered').effect_transform = Back(caller_scopes).transform]_vars

\* ------------------------------------------------------------------- C38
\* The members of the canvas are left as they are.
CanvasUntouched ==
  UNCHANGED <<transform_stack_, current_depth_, render_passes_,
              save_layer_state_, clip_coverage_stack_>>

\* Restore on a canvas whose only frame is the root returns false and
\* changes nothing.
C38_RootRestoreRefused ==
  (Len(transform_stack_) = 1 /\ \E flip \in FlipOutcomes : CallRestore(flip)) =>
    /\ \A flip \in FlipOutcomes : ~Restore(State, flip).ret
    /\ CanvasUntouched

\* RestoreToCount(count) ends: with no more frames than count, and never
\* fewer than the root, or at the Restore that returned false.
C38_RestoreToCountEnds ==
  \A count \in 0..MaxSaveCount, flips \in RestoreFlips :
    CallRestoreToCount(count, flips) =>
      /\ Len(transform_stack_') >= 1
      /\ \/ Len(transform_stack_') = Max(1, Min(count, Len(transform_stack_)))
         \/ ~RestoreToCount(State, count, flips).ret
         \/ undefined'

\* C38: Restore on a canvas whose only frame is the root returns false and
\* changes no state, so GetSaveCount() is at least 1 in every reachable
\* state and no Restore pops the root frame; RestoreToCount ends for every
\* count, 0 too.
C38_RootFrameIsNeverPopped ==
  /\ [](GetSaveCount(State) >= 1)
  /\ [][C38_RootRestoreRefused /\ C38_RestoreToCountEnds]_vars

\* The entry is the composite of a save layer.
IsComposite(entry) == entry.kind = "subpass"

\* C38 witness: one call of RestoreToCount has closed two save layers,
\* drawing the composite of each, and left the root frame alone.
C38_Witness ==
  /\ GetSaveCount(State) = 1
  /\ Len(SelectSeq(rendered, IsComposite)) >= 2

\* ------------------------------------------------------------------- C39
\* C39: within one command the number of image descriptors bound never
\* exceeds kMaxBindings and nothing is written past the image workspace:
\* binding a texture when the image workspace is full returns false, as
\* binding a buffer does when the buffer workspace is full.
C39_ImageBindingsWithinWorkspace ==
  /\ bound_image_offset_ <= kMaxBindings
  /\ bound_buffer_offset_ <= kMaxBindings
  /\ ~workspace_overrun

\* ------------------------------------------------------------------- C40
\* C40: for a filter of every kind (blend, matrix, sRGB to linear, linear
\* to sRGB, composed) the GPU filter built by WrapWithGPUColorFilter turns
\* a colour into the colour the CPU procedure of the filter turns it into;
\* a composed filter applies its inner filter first and its outer filter
\* second on both paths.
C40_GPUFilterMatchesCPUProc ==
  \A i \in DOMAIN filtered :
    /\ filtered[i].gpu = filtered[i].cpu
    /\ filtered[i].filter.kind = "ComposedColorFilter" =>
         LET inner == filtered[i].filter.inner_
             outer == filtered[i].filter.outer_
             color == filtered[i].color
         IN  /\ filtered[i].cpu =
                  GetCPUColorFilterProc(outer, GetCPUColorFilterProc(inner, color))
             /\ filtered[i].gpu =
                  RenderColor(WrapWithGPUColorFilter(outer,
                    ColorInput(RenderColor(WrapWithGPUColorFilter(
                      inner, ColorInput(color), "kNo"))), "kYes"))

====
